---- MODULE Spec2Model ----
(***************************************************************************)
(* Model of the tester-service load harness                                *)
(* (services/tester-service/src/scenarios/perf_common.js): the latency     *)
(* histogram, user sharding, the retrying unary invoker and the runPerf    *)
(* scenario orchestrator.                                                  *)
(*                                                                         *)
(* JavaScript runs every callback and every continuation of an async       *)
(* function to its next await without interruption, so one action of the   *)
(* model is one such run-to-completion step.  Latencies are milliseconds   *)
(* taken from small sets of integers; sequences are 1-based, so bucket     *)
(* index k of the model is index k-1 of the code.                          *)
(***************************************************************************)
EXTENDS Integers, Sequences, FiniteSets, TLC

VARIABLES
    tHist,      \* histogram exercised directly through observe
    tObs,       \* observe calls made on tHist: [n, nErr]
    shardT,     \* sharding table: [totalUsers, shardCount, ranges]
    rPolicy,    \* opts of the unaryWithRetry call under test
    rCall,      \* the unaryWithRetry call under test (its locals and position)
    rHist,      \* the histogram handed to that call
    rHist0,     \* rHist as it was when the call was entered
    rTrace,     \* the attempts of the call so far: <<[err, ms], ...>>
    cfg,        \* runPerf: arguments and environment of the run
    pc,         \* runPerf: the await at which the function stands
    loopI,      \* runPerf: loop variable i of the batch loops
    pending,    \* workers of the batch in flight that have not finished
    creds,      \* runPerf: creds, indexed 0 .. count-1
    okCreds,    \* runPerf: okCreds, the users with a credential
    createCall, \* the unaryWithRetry call of CreateRoom
    enterCalls, \* the unaryWithRetry calls of the EnterRoom batch in flight
    enteredUsers,
    enterFailSamples,
    histLogin,
    histCreateRoom,
    histEnterRoom,
    histSend,
    loops,      \* userLoop of every entered user: [st, n, due, ms]
    now,        \* Date.now(), in ms since the send phase began
    endTime,    \* runPerf: endTime, on the same scale
    out,        \* records written to stdout, in order
    thrown,     \* message of the Error runPerf threw, "" if none
    issued,     \* RPCs issued so far, by method
    completed,  \* RPCs answered so far, by method
    failed,     \* RPCs answered with an error so far, by method
    loginRpcs,  \* Login RPCs issued so far, by user number
    rpcUsers,   \* users whose credential an RPC was issued with, by method
    enterOps,   \* per user: unaryWithRetry calls entered for EnterRoom, their result
    pBucketsMs, \* Get-P95FromHistogram: $BucketsMs
    pBuckets,   \* Get-P95FromHistogram: $Buckets
    pResult,    \* Get-P95FromHistogram: what the call returned, once it has
    files,      \* comparator: the log files under $BasePath, by name
    Comparisons,\* comparator: the parameter $Comparisons
    cIdx,       \* comparator: index of the entry the foreach loop takes next
    all,        \* comparator: $all, the rows collected so far
    csv,        \* comparator: whether $OutCsv was written, and its rows
    cmpThrown,  \* comparator: message of the terminating error, <<>> if none
    pEnv,       \* run.js: process.env.SCENARIO, as a sequence of characters
    pTTY,       \* run.js: process.stdout.isTTY
    pModule,    \* run.js: what require() of the scenario's module gives
    pPc,        \* run.js: where the process is
    pStatus,    \* run.js: the exit status, <<>> while the process runs
    pErr,       \* run.js: what was written to the error stream, in order
    pOut,       \* run.js: what was written to the output stream, in order
    pRun,       \* run.js: the promise scenarioModule.run returned
    srvTopo,    \* room target: "mono" (monolith-service) or "micro" (chatroom-service)
    srvRooms,   \* room target: per room name, whether it exists and who is in it
    srvCalls,   \* room target: per client, the RPC in flight and its handler's position
    tScript,    \* scenario 3: the step the test is at and the answers it got
    oLeft,      \* RPCs the other client may still issue
    chTopo,     \* chat target: "mono" (monolith-service) or "micro" (chat-service)
    chSubs,     \* chat target: roomSubscribers / subscribers, the streams of each room
    chHistory,  \* chat target: messageHistory / the messages table, per room
    chSeq,      \* chat target: GLOBAL_SEQ / the last insert id
    chStreams,  \* per client: its Subscribe stream, on the server and as received
    chCalls,    \* per client: the unary chat RPC in flight and its handler's position
    tChat,      \* scenario 3: the step of the messaging test and what it saw
    oChat       \* chat RPCs the other client may still issue

histVars == <<tHist, tObs>>
shardVars == <<shardT>>
retryVars == <<rPolicy, rCall, rHist, rHist0, rTrace>>
p95Vars == <<pBucketsMs, pBuckets, pResult>>
cmpVars == <<files, Comparisons, cIdx, all, csv, cmpThrown>>
procVars == <<pEnv, pTTY, pModule, pPc, pStatus, pErr, pOut, pRun>>
roomVars == <<srvTopo, srvRooms, srvCalls, tScript, oLeft>>
chatVars == <<chTopo, chSubs, chHistory, chSeq, chStreams, chCalls, tChat, oChat>>
auxVars == <<p95Vars, cmpVars, procVars, roomVars, chatVars>>
runHists == <<histLogin, histCreateRoom, histEnterRoom, histSend>>
runVars == <<cfg, pc, loopI, pending, creds, okCreds, createCall, enterCalls, enteredUsers,
             enterFailSamples, runHists, loops, now, endTime, out, thrown, issued,
             completed, failed, loginRpcs, rpcUsers, enterOps>>

----------------------------------------------------------------------------
(* Bounds of the model *)

MaxObs == 4
MaxUsersTotal == 6
MaxShardCount == 4
MaxAttemptsBound == 3
MaxRunUsers == 2
\* users of the run whose EnterRoom failures are sampled
MaxSampleUsers == 6

----------------------------------------------------------------------------
(* Helpers standing for JavaScript built-ins *)

Min(a, b) == IF a <= b THEN a ELSE b

Max(a, b) == IF a >= b THEN a ELSE b

\* Math.ceil(a / b) for a >= 0, b >= 1
CeilDiv(a, b) == (a + b - 1) \div b

RECURSIVE SumSeq(_)
SumSeq(s) == IF s = <<>> THEN 0 ELSE Head(s) + SumSeq(Tail(s))

----------------------------------------------------------------------------
(* Histogram: makeHistogram / observe *)

BUCKETS_MS == <<1, 2, 5, 10, 20, 50, 100, 200, 500, 1000, 2000, 5000>>

\* Number.POSITIVE_INFINITY, above every latency of the model
POSITIVE_INFINITY == 1000000

makeHistogram ==
    [count |-> 0, err |-> 0, sumMs |-> 0, minMs |-> POSITIVE_INFINITY, maxMs |-> 0,
     buckets |-> [k \in 1..(Len(BUCKETS_MS) + 1) |-> 0]]

\* a plausible slip: ms < b, so that a latency equal to a boundary falls into
\* the next bucket
bucketIndex_strict(ms) ==
    IF \E k \in 1..Len(BUCKETS_MS) : ms < BUCKETS_MS[k]
    THEN CHOOSE k \in 1..Len(BUCKETS_MS) :
            /\ ms < BUCKETS_MS[k]
            /\ \A j \in 1..(k - 1) : ~(ms < BUCKETS_MS[j])
    ELSE Len(BUCKETS_MS) + 1

\* BUCKETS_MS.findIndex(b => ms <= b), -1 replaced by BUCKETS_MS.length
bucketIndex(ms) ==
    IF \E k \in 1..Len(BUCKETS_MS) : ms <= BUCKETS_MS[k]
    THEN CHOOSE k \in 1..Len(BUCKETS_MS) :
            /\ ms <= BUCKETS_MS[k]
            /\ \A j \in 1..(k - 1) : ~(ms <= BUCKETS_MS[j])
    ELSE Len(BUCKETS_MS) + 1

\* a plausible slip: a lost update, the bucket counters written back from a
\* stale (empty) copy
observe_stale(hist, ms, isErr) ==
    [count |-> hist.count + 1,
     err |-> IF isErr THEN hist.err + 1 ELSE hist.err,
     sumMs |-> hist.sumMs + ms,
     minMs |-> Min(hist.minMs, ms),
     maxMs |-> Max(hist.maxMs, ms),
     buckets |-> [k \in 1..(Len(BUCKETS_MS) + 1) |-> IF k = bucketIndex(ms) THEN 1 ELSE 0]]

\* a plausible slip: the bucket is chosen but never incremented when the
\* latency exceeds every boundary (no overflow slot)
observe_noOverflow(hist, ms, isErr) ==
    [count |-> hist.count + 1,
     err |-> IF isErr THEN hist.err + 1 ELSE hist.err,
     sumMs |-> hist.sumMs + ms,
     minMs |-> Min(hist.minMs, ms),
     maxMs |-> Max(hist.maxMs, ms),
     buckets |-> IF bucketIndex(ms) > Len(BUCKETS_MS) THEN hist.buckets
                 ELSE [hist.buckets EXCEPT ![bucketIndex(ms)] = @ + 1]]

observe(hist, ms, isErr) ==
    [count |-> hist.count + 1,
     err |-> IF isErr THEN hist.err + 1 ELSE hist.err,
     sumMs |-> hist.sumMs + ms,
     minMs |-> Min(hist.minMs, ms),
     maxMs |-> Max(hist.maxMs, ms),
     buckets |-> [hist.buckets EXCEPT ![bucketIndex(ms)] = @ + 1]]

bucketSum(hist) == SumSeq(hist.buckets)

----------------------------------------------------------------------------
(* User sharding: shardRange *)

\* a plausible slip: Math.floor instead of Math.ceil
shardRange_floor(totalUsers, shardCount, shardIndex) ==
    LET per == totalUsers \div shardCount
        start == shardIndex * per
        end == Min(totalUsers, start + per)
    IN  [start |-> start, end |-> end, count |-> Max(0, end - start)]

shardRange(totalUsers, shardCount, shardIndex) ==
    LET per == CeilDiv(totalUsers, shardCount)
        start == shardIndex * per
        end == Min(totalUsers, start + per)
    IN  [start |-> start, end |-> end, count |-> Max(0, end - start)]

\* the user indexes of a range [start, end)
rangeMembers(r) == r.start .. (r.end - 1)

----------------------------------------------------------------------------
(* gRPC errors.  err is null, an error with a numeric code, or an error    *)
(* object without a numeric code.                                          *)

UNKNOWN == 2
INVALID_ARGUMENT == 3
DEADLINE_EXCEEDED == 4
ALREADY_EXISTS == 6
RESOURCE_EXHAUSTED == 8
UNAVAILABLE == 14

NullErr == [kind |-> "null", code |-> 0]
UncodedErr == [kind |-> "uncoded", code |-> 0]
GrpcError(c) == [kind |-> "coded", code |-> c]

\* a plausible slip: INVALID_ARGUMENT listed among the transient codes
isRetryableGrpcError_wide(err) ==
    /\ err.kind = "coded"
    /\ err.code \in {UNAVAILABLE, DEADLINE_EXCEEDED, RESOURCE_EXHAUSTED, UNKNOWN,
                     INVALID_ARGUMENT}

isRetryableGrpcError(err) ==
    /\ err.kind = "coded"
    /\ \/ err.code = UNAVAILABLE
       \/ err.code = DEADLINE_EXCEEDED
       \/ err.code = RESOURCE_EXHAUSTED
       \/ err.code = UNKNOWN

----------------------------------------------------------------------------
(* unaryWithRetry.  A call is [st, attempt, totalMs, lastErr, sleepMs,     *)
(* ret]: st is where the async function stands (inflight: awaiting         *)
(* unaryAttemptAsync; sleeping: awaiting sleep; returned), ret its return  *)
(* value.  Each operator is one run-to-completion step and yields the call *)
(* and the histogram after it.                                             *)

RECURSIVE Pow2(_)
Pow2(n) == IF n <= 0 THEN 1 ELSE 2 * Pow2(n - 1)

NoRet == [ok |-> FALSE, attemptCount |-> 0, err |-> NullErr, acceptedError |-> NullErr]

IdleCall == [st |-> "idle", attempt |-> 0, totalMs |-> 0, lastErr |-> NullErr,
             sleepMs |-> 0, ret |-> NoRet]

\* a plausible slip: the doubling delay without its ceiling
backoffExp_uncapped(policy, attempt) == policy.baseDelayMs * Pow2(attempt - 1)

\* Math.min(maxDelayMs, baseDelayMs * Math.pow(2, attempt - 1))
backoffExp(policy, attempt) ==
    Min(policy.maxDelayMs, policy.baseDelayMs * Pow2(attempt - 1))

\* Math.random() * exp * 0.2 for Math.random() = rnd / 100, in whole ms
backoffJitter(rnd, exp) == (rnd * exp * 2) \div 1000

\* Entry of the call up to its first await: attempt = 1 passes the loop test
\* and the first RPC is issued, or the loop is skipped (lines 143-144).
unaryWithRetry_enter(policy, hist) ==
    IF 1 <= policy.maxAttempts
    THEN [call |-> [IdleCall EXCEPT !.st = "inflight", !.attempt = 1], hist |-> hist]
    ELSE [call |-> [IdleCall EXCEPT !.st = "returned", !.attempt = 1,
                       !.ret = [ok |-> FALSE, attemptCount |-> policy.maxAttempts,
                                err |-> NullErr, acceptedError |-> NullErr]],
          hist |-> observe(hist, 0, TRUE)]

\* totalMs += ms (line 118)
\* a plausible slip: totalMs = ms, the last attempt only
accumulatedMs_lastOnly(call, ms) == ms

accumulatedMs(call, ms) == call.totalMs + ms

\* What the loop body decides for an attempt that answered err (lines 120,
\* 127, 133): "success", "accepted", "fail" or "retry".
\* a plausible slip: the retry test placed before the acceptance test
attemptVerdict_retryFirst(call, policy, err) ==
    IF err.kind = "null" THEN "success"
    ELSE IF isRetryableGrpcError(err) /\ call.attempt # policy.maxAttempts THEN "retry"
    ELSE IF err.kind = "coded" /\ err.code \in policy.acceptErrorCodes THEN "accepted"
    ELSE "fail"

\* a plausible slip: the budget test off by one (attempt + 1 === maxAttempts)
attemptVerdict_shortBudget(call, policy, err) ==
    IF err.kind = "null" THEN "success"
    ELSE IF err.kind = "coded" /\ err.code \in policy.acceptErrorCodes THEN "accepted"
    ELSE IF ~isRetryableGrpcError(err) \/ call.attempt + 1 = policy.maxAttempts THEN "fail"
    ELSE "retry"

\* a plausible slip: acceptance tested on the first attempt only
attemptVerdict_acceptFirstOnly(call, policy, err) ==
    IF err.kind = "null" THEN "success"
    ELSE IF call.attempt = 1 /\ err.kind = "coded" /\ err.code \in policy.acceptErrorCodes
    THEN "accepted"
    ELSE IF ~isRetryableGrpcError(err) \/ call.attempt = policy.maxAttempts THEN "fail"
    ELSE "retry"

attemptVerdict(call, policy, err) ==
    IF err.kind = "null" THEN "success"
    ELSE IF err.kind = "coded" /\ err.code \in policy.acceptErrorCodes THEN "accepted"
    ELSE IF ~isRetryableGrpcError(err) \/ call.attempt = policy.maxAttempts THEN "fail"
    ELSE "retry"

\* The observe of lines 121, 129 and 134: none when the attempt is retried.
\* a plausible slip: every failed attempt observed as an error
histAfterAttempt_perAttempt(hist, verdict, totalMs) ==
    IF verdict \in {"success", "accepted"} THEN observe(hist, totalMs, FALSE)
    ELSE observe(hist, totalMs, TRUE)

histAfterAttempt(hist, verdict, totalMs) ==
    IF verdict = "retry" THEN hist
    ELSE observe(hist, totalMs, verdict = "fail")

\* The attempt's callback and the loop body after the await (lines 117-140).
unaryWithRetry_response(call, policy, hist, err, ms, rnd) ==
    LET totalMs == accumulatedMs(call, ms)
        verdict == attemptVerdict(call, policy, err)
        c == [call EXCEPT !.totalMs = totalMs,
                          !.lastErr = IF err.kind = "null" THEN call.lastErr ELSE err]
        exp == backoffExp(policy, call.attempt)
    IN  [call |->
            CASE verdict = "success" ->
                    [c EXCEPT !.st = "returned",
                        !.ret = [ok |-> TRUE, attemptCount |-> call.attempt,
                                 err |-> NullErr, acceptedError |-> NullErr]]
              [] verdict = "accepted" ->
                    [c EXCEPT !.st = "returned",
                        !.ret = [ok |-> TRUE, attemptCount |-> call.attempt,
                                 err |-> NullErr, acceptedError |-> err]]
              [] verdict = "fail" ->
                    [c EXCEPT !.st = "returned",
                        !.ret = [ok |-> FALSE, attemptCount |-> call.attempt,
                                 err |-> err, acceptedError |-> NullErr]]
              [] OTHER ->
                    [c EXCEPT !.st = "sleeping",
                        !.sleepMs = exp + backoffJitter(rnd, exp)],
         hist |-> histAfterAttempt(hist, verdict, totalMs)]

\* The sleep is over: attempt++, the loop test, and the next RPC is issued
\* (or the loop ends and lines 143-144 run).
unaryWithRetry_wake(call, policy, hist) ==
    IF call.attempt + 1 <= policy.maxAttempts
    THEN [call |-> [call EXCEPT !.st = "inflight", !.attempt = call.attempt + 1,
                       !.sleepMs = 0],
          hist |-> hist]
    ELSE [call |-> [call EXCEPT !.st = "returned", !.attempt = call.attempt + 1,
                       !.sleepMs = 0,
                       !.ret = [ok |-> FALSE, attemptCount |-> policy.maxAttempts,
                                err |-> call.lastErr, acceptedError |-> NullErr]],
          hist |-> observe(hist, call.totalMs, TRUE)]

----------------------------------------------------------------------------
(* runPerf: configuration, locals and output records *)

Methods == {"Login", "CreateRoom", "EnterRoom", "SendMessage"}

\* shardRange(usersTotal, SHARD_COUNT, SHARD_INDEX) of line 175
shard == shardRange(cfg.usersTotal, cfg.SHARD_COUNT, cfg.SHARD_INDEX)

rpcPolicy_noAccept ==
    [maxAttempts |-> cfg.RPC_MAX_ATTEMPTS, baseDelayMs |-> 50, maxDelayMs |-> 500,
     acceptErrorCodes |-> {}]

\* the opts handed to unaryWithRetry (lines 252-257, 287-292), with
\* RPC_BASE_DELAY_MS and RPC_MAX_DELAY_MS at their defaults
rpcPolicy ==
    [maxAttempts |-> cfg.RPC_MAX_ATTEMPTS, baseDelayMs |-> 50, maxDelayMs |-> 500,
     acceptErrorCodes |-> {ALREADY_EXISTS}]

\* elements of creds: a hole of new Array(count), null, or {username, credential}
\* of user number u (perf_demo<u>)
HoleCred == [state |-> "hole", u |-> 0]
NullCred == [state |-> "null", u |-> 0]
OkCred(u) == [state |-> "cred", u |-> u]

RECURSIVE filterCreds_keepNull(_, _)
filterCreds_keepNull(cs, idx) ==
    IF idx \notin DOMAIN cs THEN <<>>
    ELSE <<shard.start + idx>> \o filterCreds_keepNull(cs, idx + 1)

\* creds.filter(x => x && x.credential): the user numbers, in index order
RECURSIVE filterCreds(_, _)
filterCreds(cs, idx) ==
    IF idx \notin DOMAIN cs THEN <<>>
    ELSE IF cs[idx].state = "cred"
         THEN <<cs[idx].u>> \o filterCreds(cs, idx + 1)
         ELSE filterCreds(cs, idx + 1)

runStartRecord ==
    [kind |-> "tester_run_start", name |-> "", count |-> 0, err |-> 0,
     buckets |-> <<>>, extra |-> [mode |-> cfg.mode, users_total |-> cfg.usersTotal,
                shard_users |-> shard.count]]

\* summarize(name, hist, extra): kind, name, count, err, buckets and the extra
\* fields the run's checks read (scenario and the rounded avg_ms, min_ms,
\* max_ms and throughput figures are left out of the record)
summarize(name, hist, extra) ==
    [kind |-> "tester_metrics", name |-> name, count |-> hist.count, err |-> hist.err,
     buckets |-> hist.buckets, extra |-> extra]

loginSummary_attempted(hist, oks) ==
    summarize("login", hist, [users_attempted |-> shard.count, users_logged_in |-> shard.count])

loginSummary(hist, oks) ==
    summarize("login", hist, [users_attempted |-> shard.count, users_logged_in |-> Len(oks)])

batchOf_wide(from, limit) == from .. (limit - 1)

\* a plausible slip: u <= batchEnd
batchOf_inclusive(from, limit) == from .. Min(limit, from + cfg.BATCH_SIZE)

\* the batch [from, Math.min(limit, from + BATCH_SIZE)) of a batch loop
batchOf(from, limit) == from .. (Min(limit, from + cfg.BATCH_SIZE) - 1)

\* await Promise.all(batch) (lines 223, 310): every worker of the batch finished
\* a plausible slip: the batch is not awaited
batchResolved_notAwaited == TRUE

batchResolved == pending = {}

bump(counter, method, n) == [counter EXCEPT ![method] = @ + n]

RunIdle ==
    /\ cfg = [mode |-> "login", usersTotal |-> 0, SHARD_COUNT |-> 1, SHARD_INDEX |-> 0,
              BATCH_SIZE |-> 200, RPC_MAX_ATTEMPTS |-> 4, DURATION_SEC |-> 120,
              MSG_RATE |-> 0]
    /\ pc = "start"
    /\ loopI = 0
    /\ pending = {}
    /\ creds = <<>>
    /\ okCreds = <<>>
    /\ createCall = IdleCall
    /\ enterCalls = <<>>
    /\ enteredUsers = <<>>
    /\ enterFailSamples = <<>>
    /\ histLogin = makeHistogram
    /\ histCreateRoom = makeHistogram
    /\ histEnterRoom = makeHistogram
    /\ histSend = makeHistogram
    /\ loops = <<>>
    /\ now = 0
    /\ endTime = 0
    /\ out = <<>>
    /\ thrown = ""
    /\ issued = [m \in Methods |-> 0]
    /\ completed = [m \in Methods |-> 0]
    /\ failed = [m \in Methods |-> 0]
    /\ loginRpcs = <<>>
    /\ rpcUsers = <<>>
    /\ enterOps = <<>>

----------------------------------------------------------------------------
(* Specification SpecHist: one histogram mutated only through observe *)

HistLatencies == {0, 1, 2, 3, 5000, 5001}

HistIdle == tHist = makeHistogram /\ tObs = [n |-> 0, nErr |-> 0]

ShardIdle == shardT = [totalUsers |-> 0, shardCount |-> 1, ranges |-> <<>>]

DefaultPolicy == [maxAttempts |-> 4, baseDelayMs |-> 50, maxDelayMs |-> 500,
                  acceptErrorCodes |-> {}]

RetryIdle ==
    /\ rPolicy = DefaultPolicy
    /\ rCall = IdleCall
    /\ rHist = makeHistogram
    /\ rHist0 = makeHistogram
    /\ rTrace = <<>>

P95Idle == pBucketsMs = <<>> /\ pBuckets = <<>> /\ pResult = <<>>

CompareIdle ==
    /\ files = <<>>
    /\ Comparisons = <<>>
    /\ cIdx = 1
    /\ all = <<>>
    /\ csv = [written |-> FALSE, rows |-> <<>>]
    /\ cmpThrown = <<>>

\* process.env.SCENARIO not set
Undefined == <<"undefined">>

NoError == [name |-> "", message |-> ""]

ProcIdle ==
    /\ pEnv = Undefined
    /\ pTTY = FALSE
    /\ pModule = "run"
    /\ pPc = "load"
    /\ pStatus = <<>>
    /\ pErr = <<>>
    /\ pOut = <<>>
    /\ pRun = [st |-> "none", err |-> NoError]

RoomsIdle ==
    /\ srvTopo = "mono"
    /\ srvRooms = <<>>
    /\ srvCalls = <<>>
    /\ tScript = <<>>
    /\ oLeft = 0

ChatIdle ==
    /\ chTopo = "mono"
    /\ chSubs = <<>>
    /\ chHistory = <<>>
    /\ chSeq = 0
    /\ chStreams = <<>>
    /\ chCalls = <<>>
    /\ tChat = <<>>
    /\ oChat = 0

AuxIdle == P95Idle /\ CompareIdle /\ ProcIdle /\ RoomsIdle /\ ChatIdle

InitHist == HistIdle /\ ShardIdle /\ RetryIdle /\ RunIdle /\ AuxIdle

Observe(ms, isErr) ==
    /\ tObs.n < MaxObs
    /\ tHist' = observe(tHist, ms, isErr)
    /\ tObs' = [n |-> tObs.n + 1, nErr |-> tObs.nErr + (IF isErr THEN 1 ELSE 0)]
    /\ UNCHANGED <<shardVars, retryVars, runVars, auxVars>>

NextHist == \E ms \in HistLatencies, isErr \in BOOLEAN : Observe(ms, isErr)

vars == <<histVars, shardVars, retryVars, runVars, auxVars>>

SpecHist == InitHist /\ [][NextHist]_vars

----------------------------------------------------------------------------
(* Specification SpecShard: shardRange applied to every shard index of a   *)
(* population                                                              *)

InitShard ==
    /\ HistIdle
    /\ AuxIdle
    /\ RetryIdle
    /\ RunIdle
    /\ \E total \in 0..MaxUsersTotal, n \in 1..MaxShardCount :
          shardT = [totalUsers |-> total, shardCount |-> n, ranges |-> <<>>]

\* ranges is a function over the shard indexes computed so far
ComputeShard(idx) ==
    /\ idx \notin DOMAIN shardT.ranges
    /\ shardT' = [shardT EXCEPT !.ranges =
                     [i \in (DOMAIN shardT.ranges) \cup {idx} |->
                         IF i = idx
                         THEN shardRange(shardT.totalUsers, shardT.shardCount, idx)
                         ELSE shardT.ranges[i]]]
    /\ UNCHANGED <<histVars, retryVars, runVars, auxVars>>

NextShard == \E idx \in 0..(shardT.shardCount - 1) : ComputeShard(idx)

SpecShard == InitShard /\ [][NextShard]_vars

----------------------------------------------------------------------------
(* Specification SpecRetry: a caller that runs unaryWithRetry calls one    *)
(* after another on one histogram, against a target answering each attempt *)
(* with any error and any latency.                                         *)

RetryLatencies == {1, 4}

AttemptErrors ==
    {NullErr, UncodedErr} \cup
    {GrpcError(c) : c \in {UNKNOWN, INVALID_ARGUMENT, DEADLINE_EXCEEDED, ALREADY_EXISTS,
                           RESOURCE_EXHAUSTED, UNAVAILABLE}}

RetryPolicies ==
    [maxAttempts : (-1)..MaxAttemptsBound,
     baseDelayMs : {50, 300},
     maxDelayMs : {500},
     acceptErrorCodes : {{}, {ALREADY_EXISTS}, {UNAVAILABLE}}]

RandomPercents == {0, 99}

\* the histogram is fresh, or already holds observations of earlier calls
RetryInitialHists ==
    {makeHistogram, observe(observe(makeHistogram, 4, TRUE), 6000, FALSE)}

InitRetry ==
    /\ HistIdle
    /\ AuxIdle
    /\ ShardIdle
    /\ RunIdle
    /\ rPolicy \in RetryPolicies
    /\ rCall = IdleCall
    /\ rHist \in RetryInitialHists
    /\ rHist0 = rHist
    /\ rTrace = <<>>

RetryEnter ==
    /\ rCall.st = "idle"
    /\ LET r == unaryWithRetry_enter(rPolicy, rHist)
       IN  rCall' = r.call /\ rHist' = r.hist
    /\ rHist0' = rHist
    /\ rTrace' = <<>>
    /\ UNCHANGED <<rPolicy, histVars, shardVars, runVars, auxVars>>

RetryResponse(err, ms, rnd) ==
    /\ rCall.st = "inflight"
    /\ LET r == unaryWithRetry_response(rCall, rPolicy, rHist, err, ms, rnd)
       IN  rCall' = r.call /\ rHist' = r.hist
    /\ rTrace' = Append(rTrace, [err |-> err, ms |-> ms])
    /\ UNCHANGED <<rPolicy, rHist0, histVars, shardVars, runVars, auxVars>>

RetryWake ==
    /\ rCall.st = "sleeping"
    /\ LET r == unaryWithRetry_wake(rCall, rPolicy, rHist)
       IN  rCall' = r.call /\ rHist' = r.hist
    /\ UNCHANGED <<rPolicy, rHist0, rTrace, histVars, shardVars, runVars, auxVars>>

NextRetry ==
    \/ RetryEnter
    \/ \E err \in AttemptErrors, ms \in RetryLatencies, rnd \in RandomPercents :
          RetryResponse(err, ms, rnd)
    \/ RetryWake

SpecRetry == InitRetry /\ [][NextRetry]_vars

----------------------------------------------------------------------------
(* Specification SpecRun: one run of runPerf against targets that answer   *)
(* every RPC with any outcome.  An RPC answer runs the callback of         *)
(* unaryAttemptAsync and the continuations it resolves; the continuation   *)
(* of runPerf behind Promise.all is a step of its own.                     *)

\* usersTotal and mode come from the scenario module, the rest from env;
\* InitRun keeps SHARD_INDEX below SHARD_COUNT.  Every RPC of a run takes
\* RunLatencies ms; a successful Login answers a non-empty credential, as
\* the login service does.
RunConfigs ==
    [mode : {"login", "login_chat"},
     usersTotal : 0..MaxRunUsers,
     SHARD_COUNT : {1, 2},
     SHARD_INDEX : {0, 1},
     BATCH_SIZE : {0, 1, 2},
     RPC_MAX_ATTEMPTS : {1, 2},
     DURATION_SEC : {0, 1},
     MSG_RATE : {0, 1}]

\* scenario 4_login_10 (usersTotal 10, mode login), run in batches of 5
ScenarioConfigs ==
    {[mode |-> "login", usersTotal |-> 10, SHARD_COUNT |-> 1, SHARD_INDEX |-> 0,
      BATCH_SIZE |-> 5, RPC_MAX_ATTEMPTS |-> 1, DURATION_SEC |-> 0, MSG_RATE |-> 0]}

RunLatencies == {2}

LoginErrors == {NullErr, GrpcError(INVALID_ARGUMENT)}

GatewayErrors ==
    {NullErr, GrpcError(ALREADY_EXISTS), GrpcError(UNAVAILABLE), GrpcError(INVALID_ARGUMENT)}

SendErrors == {NullErr, GrpcError(UNAVAILABLE)}

InitRun ==
    /\ HistIdle
    /\ AuxIdle
    /\ ShardIdle
    /\ RetryIdle
    /\ cfg \in RunConfigs \cup ScenarioConfigs
    /\ cfg.SHARD_INDEX < cfg.SHARD_COUNT
    /\ pc = "start"
    /\ loopI = 0
    /\ pending = {}
    /\ creds = <<>>
    /\ okCreds = <<>>
    /\ createCall = IdleCall
    /\ enterCalls = <<>>
    /\ enteredUsers = <<>>
    /\ enterFailSamples = <<>>
    /\ histLogin = makeHistogram
    /\ histCreateRoom = makeHistogram
    /\ histEnterRoom = makeHistogram
    /\ histSend = makeHistogram
    /\ loops = <<>>
    /\ now = 0
    /\ endTime = 0
    /\ out = <<>>
    /\ thrown = ""
    /\ issued = [m \in Methods |-> 0]
    /\ completed = [m \in Methods |-> 0]
    /\ failed = [m \in Methods |-> 0]
    /\ loginRpcs = [u \in 0..(cfg.usersTotal - 1) |-> 0]
    /\ rpcUsers = [m \in Methods \ {"Login"} |-> {}]
    /\ enterOps = [u \in 0..(cfg.usersTotal - 1) |-> [calls |-> 0, result |-> "none"]]

\* One pass of the login batch loop (lines 204-223) entered with i = from:
\* every user of the batch issues its Login RPC, then runPerf awaits the batch.
issueLoginBatch(from) ==
    /\ loopI' = from
    /\ pending' = batchOf(from, shard.end)
    /\ issued' = bump(issued, "Login", Cardinality(batchOf(from, shard.end)))
    /\ loginRpcs' = [u \in DOMAIN loginRpcs |->
                        IF u \in batchOf(from, shard.end) THEN loginRpcs[u] + 1
                        ELSE loginRpcs[u]]
    /\ pc' = "login_await"

\* runPerf is called with a shard that has users: lines 148-223 up to the
\* await of the first login batch.
RunStartLogin ==
    /\ pc = "start"
    /\ shard.start < shard.end
    /\ out' = <<runStartRecord>>
    /\ creds' = [idx \in 0..(shard.count - 1) |-> HoleCred]
    /\ issueLoginBatch(shard.start)
    /\ UNCHANGED <<rpcUsers, enterOps>>
    /\ UNCHANGED <<cfg, okCreds, createCall, enterCalls, enteredUsers, enterFailSamples,
                   runHists, loops, now, endTime, thrown, completed, failed>>
    /\ UNCHANGED <<histVars, shardVars, retryVars, auxVars>>

\* runPerf is called in mode login with an empty shard: the batch loop is
\* skipped and the login summary is written (lines 226-237).
RunStartNoUsersLogin ==
    /\ pc = "start"
    /\ ~(shard.start < shard.end)
    /\ cfg.mode = "login"
    /\ out' = <<runStartRecord, loginSummary(histLogin, <<>>)>>
    /\ pc' = "done"
    /\ UNCHANGED <<cfg, loopI, pending, creds, okCreds, createCall, enterCalls,
                   enteredUsers, enterFailSamples, runHists, loops, now, endTime, thrown,
                   issued, completed, failed, loginRpcs, rpcUsers, enterOps>>
    /\ UNCHANGED <<histVars, shardVars, retryVars, auxVars>>

RunStartNoUsersChat_withSummary ==
    /\ pc = "start"
    /\ ~(shard.start < shard.end)
    /\ cfg.mode # "login"
    /\ out' = <<runStartRecord, loginSummary(histLogin, <<>>)>>
    /\ thrown' = "No successful logins; aborting chat phase."
    /\ pc' = "thrown"
    /\ UNCHANGED <<cfg, loopI, pending, creds, okCreds, createCall, enterCalls,
                   enteredUsers, enterFailSamples, runHists, loops, now, endTime,
                   issued, completed, failed, loginRpcs, rpcUsers, enterOps>>
    /\ UNCHANGED <<histVars, shardVars, retryVars, auxVars>>

\* the same in mode login_chat: no successful login (lines 240-242)
RunStartNoUsersChat ==
    /\ pc = "start"
    /\ ~(shard.start < shard.end)
    /\ cfg.mode # "login"
    /\ out' = <<runStartRecord>>
    /\ thrown' = "No successful logins; aborting chat phase."
    /\ pc' = "thrown"
    /\ UNCHANGED <<cfg, loopI, pending, creds, okCreds, createCall, enterCalls,
                   enteredUsers, enterFailSamples, runHists, loops, now, endTime,
                   issued, completed, failed, loginRpcs, rpcUsers, enterOps>>
    /\ UNCHANGED <<histVars, shardVars, retryVars, auxVars>>

\* The Login RPC of user u is answered: the worker of lines 213-220.
LoginResponse(u, err, ms) ==
    /\ pc = "login_await"
    /\ u \in pending
    /\ histLogin' = observe(histLogin, ms, err.kind # "null")
    /\ creds' = [creds EXCEPT ![u - shard.start] =
                     IF err.kind # "null" THEN NullCred ELSE OkCred(u)]
    /\ pending' = pending \ {u}
    /\ completed' = bump(completed, "Login", 1)
    /\ failed' = bump(failed, "Login", IF err.kind # "null" THEN 1 ELSE 0)
    /\ UNCHANGED <<cfg, pc, loopI, okCreds, createCall, enterCalls, enteredUsers,
                   enterFailSamples, histCreateRoom, histEnterRoom, histSend, loops, now,
                   endTime, out, thrown, issued, loginRpcs, rpcUsers, enterOps>>
    /\ UNCHANGED <<histVars, shardVars, retryVars, auxVars>>

\* Promise.all of a login batch resolved and users remain: the next batch.
LoginNextBatch ==
    /\ pc = "login_await"
    /\ batchResolved
    /\ loopI + cfg.BATCH_SIZE < shard.end
    /\ issueLoginBatch(loopI + cfg.BATCH_SIZE)
    /\ UNCHANGED <<rpcUsers, enterOps>>
    /\ UNCHANGED <<cfg, creds, okCreds, createCall, enterCalls, enteredUsers,
                   enterFailSamples, runHists, loops, now, endTime, out, thrown, completed, failed>>
    /\ UNCHANGED <<histVars, shardVars, retryVars, auxVars>>

\* ... resolved after the last batch, mode login (lines 226-237)
LoginDoneModeLogin ==
    /\ pc = "login_await"
    /\ batchResolved
    /\ ~(loopI + cfg.BATCH_SIZE < shard.end)
    /\ cfg.mode = "login"
    /\ loopI' = loopI + cfg.BATCH_SIZE
    /\ okCreds' = filterCreds(creds, 0)
    /\ out' = Append(out, loginSummary(histLogin, filterCreds(creds, 0)))
    /\ pc' = "done"
    /\ UNCHANGED <<cfg, pending, creds, createCall, enterCalls, enteredUsers,
                   enterFailSamples, runHists, loops, now, endTime, thrown, issued,
                   completed, failed, loginRpcs, rpcUsers, enterOps>>
    /\ UNCHANGED <<histVars, shardVars, retryVars, auxVars>>

\* ... mode login_chat and nobody logged in (lines 240-242)
LoginDoneNoLogins ==
    /\ pc = "login_await"
    /\ batchResolved
    /\ ~(loopI + cfg.BATCH_SIZE < shard.end)
    /\ cfg.mode # "login"
    /\ filterCreds(creds, 0) = <<>>
    /\ loopI' = loopI + cfg.BATCH_SIZE
    /\ okCreds' = <<>>
    /\ thrown' = "No successful logins; aborting chat phase."
    /\ pc' = "thrown"
    /\ UNCHANGED <<cfg, pending, creds, createCall, enterCalls, enteredUsers,
                   enterFailSamples, runHists, loops, now, endTime, out, issued,
                   completed, failed, loginRpcs, rpcUsers, enterOps>>
    /\ UNCHANGED <<histVars, shardVars, retryVars, auxVars>>

createRoomUser_last(oks) == oks[Len(oks)]

\* c0, whose credential every attempt of CreateRoom carries (line 245)
createRoomUser(oks) == oks[1]

\* ... mode login_chat with a logged-in user: unaryWithRetry is entered for
\* CreateRoom (lines 245-258) and runPerf awaits it.
LoginDoneCreateRoom ==
    /\ pc = "login_await"
    /\ batchResolved
    /\ ~(loopI + cfg.BATCH_SIZE < shard.end)
    /\ cfg.mode # "login"
    /\ filterCreds(creds, 0) # <<>>
    /\ loopI' = loopI + cfg.BATCH_SIZE
    /\ okCreds' = filterCreds(creds, 0)
    /\ LET r == unaryWithRetry_enter(rpcPolicy, histCreateRoom)
       IN  /\ createCall' = r.call
           /\ histCreateRoom' = r.hist
           /\ issued' = bump(issued, "CreateRoom", IF r.call.st = "inflight" THEN 1 ELSE 0)
           /\ rpcUsers' =
                 IF r.call.st = "inflight"
                 THEN [rpcUsers EXCEPT !["CreateRoom"] = @ \cup {createRoomUser(okCreds')}]
                 ELSE rpcUsers
    /\ pc' = "create_await"
    /\ UNCHANGED <<cfg, pending, creds, enterCalls, enteredUsers, enterFailSamples,
                   histLogin, histEnterRoom, histSend, loops, now, endTime, out, thrown,
                   completed, failed, loginRpcs, enterOps>>
    /\ UNCHANGED <<histVars, shardVars, retryVars, auxVars>>

\* An attempt of CreateRoom is answered: the loop body of unaryWithRetry.
CreateResponse(err, ms, rnd) ==
    /\ pc = "create_await"
    /\ createCall.st = "inflight"
    /\ LET r == unaryWithRetry_response(createCall, rpcPolicy, histCreateRoom, err, ms, rnd)
       IN  createCall' = r.call /\ histCreateRoom' = r.hist
    /\ completed' = bump(completed, "CreateRoom", 1)
    /\ failed' = bump(failed, "CreateRoom", IF err.kind # "null" THEN 1 ELSE 0)
    /\ UNCHANGED <<cfg, pc, loopI, pending, creds, okCreds, enterCalls, enteredUsers,
                   enterFailSamples, histLogin, histEnterRoom, histSend, loops, now,
                   endTime, out, thrown, issued, loginRpcs, rpcUsers, enterOps>>
    /\ UNCHANGED <<histVars, shardVars, retryVars, auxVars>>

\* The backoff sleep of CreateRoom is over.
CreateWake ==
    /\ pc = "create_await"
    /\ createCall.st = "sleeping"
    /\ LET r == unaryWithRetry_wake(createCall, rpcPolicy, histCreateRoom)
       IN  /\ createCall' = r.call
           /\ histCreateRoom' = r.hist
           /\ issued' = bump(issued, "CreateRoom", IF r.call.st = "inflight" THEN 1 ELSE 0)
           /\ rpcUsers' =
                 IF r.call.st = "inflight"
                 THEN [rpcUsers EXCEPT !["CreateRoom"] = @ \cup {createRoomUser(okCreds)}]
                 ELSE rpcUsers
    /\ UNCHANGED <<cfg, pc, loopI, pending, creds, okCreds, enterCalls, enteredUsers,
                   enterFailSamples, histLogin, histEnterRoom, histSend, loops, now,
                   endTime, out, thrown, completed, failed, loginRpcs, enterOps>>
    /\ UNCHANGED <<histVars, shardVars, retryVars, auxVars>>

createSucceeded_unchecked == TRUE

\* createRes.ok, as tested at line 260
createSucceeded == createCall.ret.ok

\* unaryWithRetry returned ok = false for CreateRoom (lines 260-263).
CreateFailed ==
    /\ pc = "create_await"
    /\ createCall.st = "returned"
    /\ ~createSucceeded
    /\ thrown' = "CreateRoom failed"
    /\ pc' = "thrown"
    /\ UNCHANGED <<cfg, loopI, pending, creds, okCreds, createCall, enterCalls,
                   enteredUsers, enterFailSamples, runHists, loops, now, endTime, out,
                   issued, completed, failed, loginRpcs, rpcUsers, enterOps>>
    /\ UNCHANGED <<histVars, shardVars, retryVars, auxVars>>

enterUser_byIndex(k) == shard.start + k

\* u of the worker at position k of okCreds (lines 273-275, 277)
enterUser(k) == okCreds[k + 1]

\* One pass of the enter batch loop (lines 270-310) entered with i = from:
\* every worker of the batch enters unaryWithRetry.  CreateRoom returned ok,
\* so RPC_MAX_ATTEMPTS >= 1 and each call issues its first attempt.
issueEnterBatch(from) ==
    /\ loopI' = from
    /\ pending' = batchOf(from, Len(okCreds))
    /\ enterCalls' = [k \in batchOf(from, Len(okCreds)) |->
                         unaryWithRetry_enter(rpcPolicy, histEnterRoom).call]
    /\ issued' = bump(issued, "EnterRoom", Cardinality(batchOf(from, Len(okCreds))))
    /\ rpcUsers' = [rpcUsers EXCEPT !["EnterRoom"] =
                        @ \cup {enterUser(k) : k \in batchOf(from, Len(okCreds))}]
    /\ enterOps' = [u \in DOMAIN enterOps |->
                       IF u \in {enterUser(k) : k \in batchOf(from, Len(okCreds))}
                       THEN [calls |-> enterOps[u].calls + 1, result |-> "pending"]
                       ELSE enterOps[u]]
    /\ pc' = "enter_await"

\* unaryWithRetry returned ok for CreateRoom: the first enter batch.
CreateOk ==
    /\ pc = "create_await"
    /\ createCall.st = "returned"
    /\ createSucceeded
    /\ issueEnterBatch(0)
    /\ UNCHANGED <<cfg, creds, okCreds, createCall, enteredUsers, enterFailSamples,
                   runHists, loops, now, endTime, out, thrown, completed, failed, loginRpcs>>
    /\ UNCHANGED <<histVars, shardVars, retryVars, auxVars>>

ENTER_FAIL_SAMPLE_LIMIT == 5

\* a plausible slip: <= in the place of <
hasSampleRoom_inclusive(samples) == Len(samples) <= ENTER_FAIL_SAMPLE_LIMIT

\* enterFailSamples.length < ENTER_FAIL_SAMPLE_LIMIT (line 300)
hasSampleRoom(samples) == Len(samples) < ENTER_FAIL_SAMPLE_LIMIT

\* An attempt of worker k's EnterRoom is answered: the loop body of
\* unaryWithRetry and, when the call returns, the worker's lines 295-306.
EnterResponse(k, err, ms, rnd) ==
    /\ pc = "enter_await"
    /\ k \in pending
    /\ enterCalls[k].st = "inflight"
    /\ LET r == unaryWithRetry_response(enterCalls[k], rpcPolicy, histEnterRoom, err, ms, rnd)
           u == enterUser(k)
       IN  /\ enterCalls' = [enterCalls EXCEPT ![k] = r.call]
           /\ enterOps' =
                 IF r.call.st = "returned"
                 THEN [enterOps EXCEPT ![u].result =
                          IF r.call.ret.ok THEN "ok" ELSE "failed"]
                 ELSE enterOps
           /\ histEnterRoom' = r.hist
           /\ pending' = IF r.call.st = "returned" THEN pending \ {k} ELSE pending
           /\ enteredUsers' =
                 IF r.call.st = "returned" /\ r.call.ret.ok
                 THEN Append(enteredUsers, u) ELSE enteredUsers
           /\ enterFailSamples' =
                 IF /\ r.call.st = "returned"
                    /\ ~r.call.ret.ok
                    /\ hasSampleRoom(enterFailSamples)
                 THEN Append(enterFailSamples, [user |-> u, err |-> r.call.ret.err])
                 ELSE enterFailSamples
    /\ completed' = bump(completed, "EnterRoom", 1)
    /\ failed' = bump(failed, "EnterRoom", IF err.kind # "null" THEN 1 ELSE 0)
    /\ UNCHANGED <<cfg, pc, loopI, creds, okCreds, createCall, histLogin, histCreateRoom,
                   histSend, loops, now, endTime, out, thrown, issued, loginRpcs, rpcUsers>>
    /\ UNCHANGED <<histVars, shardVars, retryVars, auxVars>>

\* The backoff sleep of worker k's EnterRoom is over.
EnterWake(k) ==
    /\ pc = "enter_await"
    /\ k \in pending
    /\ enterCalls[k].st = "sleeping"
    /\ LET r == unaryWithRetry_wake(enterCalls[k], rpcPolicy, histEnterRoom)
       IN  /\ enterCalls' = [enterCalls EXCEPT ![k] = r.call]
           /\ histEnterRoom' = r.hist
           /\ issued' = bump(issued, "EnterRoom", IF r.call.st = "inflight" THEN 1 ELSE 0)
    /\ UNCHANGED <<cfg, pc, loopI, pending, creds, okCreds, createCall, enteredUsers,
                   enterFailSamples, histLogin, histCreateRoom, histSend, loops, now,
                   endTime, out, thrown, completed, failed, loginRpcs, rpcUsers, enterOps>>
    /\ UNCHANGED <<histVars, shardVars, retryVars, auxVars>>

\* Promise.all of an enter batch resolved and logged-in users remain.
EnterNextBatch ==
    /\ pc = "enter_await"
    /\ batchResolved
    /\ loopI + cfg.BATCH_SIZE < Len(okCreds)
    /\ issueEnterBatch(loopI + cfg.BATCH_SIZE)
    /\ UNCHANGED <<cfg, creds, okCreds, createCall, enteredUsers, enterFailSamples,
                   runHists, loops, now, endTime, out, thrown, completed, failed, loginRpcs>>
    /\ UNCHANGED <<histVars, shardVars, retryVars, auxVars>>

noEntrants_anyFailure == histEnterRoom.err > 0

\* enteredUsers.length === 0, as tested at line 317
noEntrants == Len(enteredUsers) = 0

\* a plausible slip: the summaries of the phases that ran are written
\* before the error is thrown
EnterDoneNoEntrants_withSummaries ==
    /\ pc = "enter_await"
    /\ batchResolved
    /\ ~(loopI + cfg.BATCH_SIZE < Len(okCreds))
    /\ noEntrants
    /\ loopI' = loopI + cfg.BATCH_SIZE
    /\ out' = out \o
          <<loginSummary(histLogin, okCreds),
            summarize("create_room", histCreateRoom, <<>>),
            summarize("enter_room", histEnterRoom, [users_entered |-> 0])>>
    /\ thrown' = "No users entered the room; cannot proceed to chat phase."
    /\ pc' = "thrown"
    /\ enterCalls' = <<>>
    /\ UNCHANGED <<cfg, pending, creds, okCreds, createCall, enteredUsers,
                   enterFailSamples, runHists, loops, now, endTime, issued,
                   completed, failed, loginRpcs, rpcUsers, enterOps>>
    /\ UNCHANGED <<histVars, shardVars, retryVars, auxVars>>

\* ... resolved after the last batch and nobody entered (lines 317-319); the
\* workers of the last batch have returned and their calls are gone
EnterDoneNoEntrants ==
    /\ pc = "enter_await"
    /\ batchResolved
    /\ ~(loopI + cfg.BATCH_SIZE < Len(okCreds))
    /\ noEntrants
    /\ loopI' = loopI + cfg.BATCH_SIZE
    /\ thrown' = "No users entered the room; cannot proceed to chat phase."
    /\ pc' = "thrown"
    /\ enterCalls' = <<>>
    /\ UNCHANGED <<cfg, pending, creds, okCreds, createCall, enteredUsers,
                   enterFailSamples, runHists, loops, now, endTime, out, issued,
                   completed, failed, loginRpcs, rpcUsers, enterOps>>
    /\ UNCHANGED <<histVars, shardVars, retryVars, auxVars>>

\* 1000 / MSG_RATE_PER_USER_PER_SEC, 0 when the rate is 0 (line 323)
perUserDelayMs == IF cfg.MSG_RATE > 0 THEN 1000 \div cfg.MSG_RATE ELSE 0

\* a plausible slip: a jitter of up to 50%
sendJitter_half(rnd) == (rnd * perUserDelayMs * 50) \div 10000

\* Math.random() * perUserDelayMs * 0.25 for Math.random() = rnd / 100
sendJitter(rnd) == (rnd * perUserDelayMs * 25) \div 10000

SendRandomPercents == {0, 80}

DoneLoop(n) == [st |-> "done", n |-> n, due |-> 0, ms |-> 0]

\* userLoop at its loop test at time t (lines 329-331): sleep, or return
userLoop_test(n, t, rnd) ==
    IF t < endTime'
    THEN [st |-> "sleeping", n |-> n, due |-> t + Max(0, perUserDelayMs - sendJitter(rnd)),
          ms |-> 0]
    ELSE DoneLoop(n)

userLoop_enter_noRateCheck(t, rnd) == userLoop_test(0, t, rnd)

\* userLoop from its entry to its first await (lines 326-331)
userLoop_enter(t, rnd) ==
    IF perUserDelayMs = 0 THEN DoneLoop(0) ELSE userLoop_test(0, t, rnd)

\* ... resolved after the last batch with entrants: endTime is set and every
\* entered user's loop is started (lines 322-347).
EnterDoneSend(rnds) ==
    /\ pc = "enter_await"
    /\ batchResolved
    /\ ~(loopI + cfg.BATCH_SIZE < Len(okCreds))
    /\ ~noEntrants
    /\ loopI' = loopI + cfg.BATCH_SIZE
    /\ endTime' = now + cfg.DURATION_SEC * 1000
    /\ loops' = [p \in 1..Len(enteredUsers) |-> userLoop_enter(now, rnds[p])]
    /\ pc' = "send_await"
    /\ enterCalls' = <<>>
    /\ UNCHANGED <<cfg, pending, creds, okCreds, createCall, enteredUsers,
                   enterFailSamples, runHists, now, out, thrown, issued, completed, failed,
                   loginRpcs, rpcUsers, enterOps>>
    /\ UNCHANGED <<histVars, shardVars, retryVars, auxVars>>

\* the timer or answer of loop p is the next event in time
earliest(p) ==
    \A q \in DOMAIN loops : loops[q].st # "done" => loops[p].due <= loops[q].due

\* The sleep of loop p is over: the SendMessage RPC is issued (lines
\* 333-342); it will be answered after ms.
SendWake(p, ms) ==
    /\ pc = "send_await"
    /\ loops[p].st = "sleeping"
    /\ earliest(p)
    /\ now' = Max(now, loops[p].due)
    /\ loops' = [loops EXCEPT ![p] =
                     [st |-> "inflight", n |-> loops[p].n + 1,
                      due |-> Max(now, loops[p].due) + ms, ms |-> ms]]
    /\ issued' = bump(issued, "SendMessage", 1)
    /\ rpcUsers' = [rpcUsers EXCEPT !["SendMessage"] = @ \cup {enteredUsers[p]}]
    /\ UNCHANGED <<cfg, pc, loopI, pending, creds, okCreds, createCall, enterCalls,
                   enteredUsers, enterFailSamples, runHists, endTime, out, thrown,
                   completed, failed, loginRpcs, enterOps>>
    /\ UNCHANGED <<histVars, shardVars, retryVars, auxVars>>

loopAfterSend_stopOnError(n, t, rnd, err) ==
    IF err.kind # "null" THEN DoneLoop(n) ELSE userLoop_test(n, t, rnd)

\* userLoop once its SendMessage is answered with err: whatever the answer,
\* back to the loop test (lines 342-344, 329)
loopAfterSend(n, t, rnd, err) == userLoop_test(n, t, rnd)

\* The SendMessage of loop p is answered: observe, then the loop test
\* (lines 342-343, 329-331).
SendResponse(p, err, rnd) ==
    /\ pc = "send_await"
    /\ loops[p].st = "inflight"
    /\ earliest(p)
    /\ now' = Max(now, loops[p].due)
    /\ histSend' = observe(histSend, loops[p].ms, err.kind # "null")
    /\ UNCHANGED endTime
    /\ loops' = [loops EXCEPT ![p] =
                     loopAfterSend(loops[p].n, Max(now, loops[p].due), rnd, err)]
    /\ completed' = bump(completed, "SendMessage", 1)
    /\ failed' = bump(failed, "SendMessage", IF err.kind # "null" THEN 1 ELSE 0)
    /\ UNCHANGED <<cfg, pc, loopI, pending, creds, okCreds, createCall, enterCalls,
                   enteredUsers, enterFailSamples, histLogin, histCreateRoom,
                   histEnterRoom, out, thrown, issued, loginRpcs, rpcUsers, enterOps>>
    /\ UNCHANGED <<histVars, shardVars, retryVars, auxVars>>

\* Promise.all of the user loops resolved: the four summaries (lines 349-368).
SendAllDone ==
    /\ pc = "send_await"
    /\ \A p \in DOMAIN loops : loops[p].st = "done"
    /\ out' = out \o
          <<loginSummary(histLogin, okCreds),
            summarize("create_room", histCreateRoom, <<>>),
            summarize("enter_room", histEnterRoom, [users_entered |-> Len(enteredUsers)]),
            summarize("send_message", histSend,
                      [duration_sec |-> cfg.DURATION_SEC,
                       users_active |-> Len(enteredUsers)])>>
    /\ pc' = "done"
    /\ UNCHANGED <<cfg, loopI, pending, creds, okCreds, createCall, enterCalls,
                   enteredUsers, enterFailSamples, runHists, loops, now, endTime, thrown,
                   issued, completed, failed, loginRpcs, rpcUsers, enterOps>>
    /\ UNCHANGED <<histVars, shardVars, retryVars, auxVars>>

NextRun ==
    \/ RunStartLogin
    \/ RunStartNoUsersLogin
    \/ RunStartNoUsersChat
    \/ \E u \in pending, err \in LoginErrors, ms \in RunLatencies : LoginResponse(u, err, ms)
    \/ LoginNextBatch
    \/ LoginDoneModeLogin
    \/ LoginDoneNoLogins
    \/ LoginDoneCreateRoom
    \/ \E err \in GatewayErrors, ms \in RunLatencies, rnd \in RandomPercents :
          CreateResponse(err, ms, rnd)
    \/ CreateWake
    \/ CreateFailed
    \/ CreateOk
    \/ \E k \in pending, err \in GatewayErrors, ms \in RunLatencies, rnd \in RandomPercents :
          EnterResponse(k, err, ms, rnd)
    \/ \E k \in pending : EnterWake(k)
    \/ EnterNextBatch
    \/ EnterDoneNoEntrants
    \/ \E rnds \in [1..Len(enteredUsers) -> SendRandomPercents] : EnterDoneSend(rnds)
    \/ \E p \in DOMAIN loops, ms \in RunLatencies : SendWake(p, ms)
    \/ \E p \in DOMAIN loops, err \in SendErrors, rnd \in SendRandomPercents :
          SendResponse(p, err, rnd)
    \/ SendAllDone

SpecRun == InitRun /\ [][NextRun]_vars

(* Specification SpecEnterSamples: a login_chat run of MaxSampleUsers     *)
(* users in batches of 3 against a login service and a CreateRoom that     *)
(* succeed, and an EnterRoom that answers each user with success or with   *)
(* INVALID_ARGUMENT; no message is sent (rate 0).                          *)
SampleConfigs ==
    {[mode |-> "login_chat", usersTotal |-> MaxSampleUsers, SHARD_COUNT |-> 1,
      SHARD_INDEX |-> 0, BATCH_SIZE |-> 3, RPC_MAX_ATTEMPTS |-> 1, DURATION_SEC |-> 0,
      MSG_RATE |-> 0]}

runInit(configs) ==
    /\ HistIdle
    /\ AuxIdle
    /\ ShardIdle
    /\ RetryIdle
    /\ cfg \in configs
    /\ pc = "start"
    /\ loopI = 0
    /\ pending = {}
    /\ creds = <<>>
    /\ okCreds = <<>>
    /\ createCall = IdleCall
    /\ enterCalls = <<>>
    /\ enteredUsers = <<>>
    /\ enterFailSamples = <<>>
    /\ histLogin = makeHistogram
    /\ histCreateRoom = makeHistogram
    /\ histEnterRoom = makeHistogram
    /\ histSend = makeHistogram
    /\ loops = <<>>
    /\ now = 0
    /\ endTime = 0
    /\ out = <<>>
    /\ thrown = ""
    /\ issued = [m \in Methods |-> 0]
    /\ completed = [m \in Methods |-> 0]
    /\ failed = [m \in Methods |-> 0]
    /\ loginRpcs = [u \in 0..(cfg.usersTotal - 1) |-> 0]
    /\ rpcUsers = [m \in Methods \ {"Login"} |-> {}]
    /\ enterOps = [u \in 0..(cfg.usersTotal - 1) |-> [calls |-> 0, result |-> "none"]]

InitEnterSamples == runInit(SampleConfigs)

NextEnterSamples ==
    \/ RunStartLogin
    \/ \E u \in pending, ms \in RunLatencies : LoginResponse(u, NullErr, ms)
    \/ LoginNextBatch
    \/ LoginDoneCreateRoom
    \/ \E ms \in RunLatencies : CreateResponse(NullErr, ms, 0)
    \/ CreateOk
    \/ \E k \in pending, err \in {NullErr, GrpcError(INVALID_ARGUMENT)}, ms \in RunLatencies :
          EnterResponse(k, err, ms, 0)
    \/ EnterNextBatch
    \/ EnterDoneNoEntrants
    \/ EnterDoneSend([p \in 1..Len(enteredUsers) |-> 0])
    \/ SendAllDone

SpecEnterSamples == InitEnterSamples /\ [][NextEnterSamples]_vars

(* Specification SpecSendRate: login_chat runs against targets that       *)
(* answer every RPC at once and with success: 3 users sending 5 messages   *)
(* per second for 2 seconds, and 1 user sending 1 per second for 1 second. *)
(* Users log in and enter one at a time (batches of 1).                    *)
SendRateConfigs ==
    {[mode |-> "login_chat", usersTotal |-> 3, SHARD_COUNT |-> 1, SHARD_INDEX |-> 0,
      BATCH_SIZE |-> 1, RPC_MAX_ATTEMPTS |-> 1, DURATION_SEC |-> 2, MSG_RATE |-> 5],
     [mode |-> "login_chat", usersTotal |-> 1, SHARD_COUNT |-> 1, SHARD_INDEX |-> 0,
      BATCH_SIZE |-> 1, RPC_MAX_ATTEMPTS |-> 1, DURATION_SEC |-> 1, MSG_RATE |-> 1]}

\* the smallest draw of Math.random() and one close to 1
RateRandomPercents == {0, 99}

InitSendRate == runInit(SendRateConfigs)

NextSendRate ==
    \/ RunStartLogin
    \/ \E u \in pending : LoginResponse(u, NullErr, 0)
    \/ LoginNextBatch
    \/ LoginDoneCreateRoom
    \/ CreateResponse(NullErr, 0, 0)
    \/ CreateOk
    \/ \E k \in pending : EnterResponse(k, NullErr, 0, 0)
    \/ EnterNextBatch
    \/ \E rnds \in [1..Len(enteredUsers) -> RateRandomPercents] : EnterDoneSend(rnds)
    \/ \E p \in DOMAIN loops : SendWake(p, 0)
    \/ \E p \in DOMAIN loops, rnd \in RateRandomPercents : SendResponse(p, NullErr, rnd)
    \/ SendAllDone

SpecSendRate == InitSendRate /\ [][NextSendRate]_vars

(* Specification SpecRunFair: runs whose BATCH_SIZE, DURATION_SEC and      *)
(* RPC_MAX_ATTEMPTS take the values parseIntEnv lets through, 0 and        *)
(* negative ones included, against targets that answer every RPC. The      *)
(* event loop runs every callback that is ready, so a step that is         *)
(* possible is eventually taken. BATCH_SIZE is 0 or positive: a pass of a  *)
(* batch loop with BATCH_SIZE = 0 leaves the run as it was.                *)
EdgeConfigs ==
    [mode : {"login", "login_chat"},
     usersTotal : 0..MaxRunUsers,
     SHARD_COUNT : {1},
     SHARD_INDEX : {0},
     BATCH_SIZE : {0, 1, 2},
     RPC_MAX_ATTEMPTS : {-1, 0, 1, 2},
     DURATION_SEC : {-1, 0, 1},
     MSG_RATE : {0, 1}]

InitRunFair == runInit(EdgeConfigs)

SpecRunFair == InitRunFair /\ [][NextRun]_vars /\ WF_vars(NextRun)

----------------------------------------------------------------------------
(* C1: after any sequence of N observe calls on a histogram, count = N and *)
(* the bucket counters, overflow bucket included, sum to N.                *)
C1_CountAndBucketSum ==
    /\ tHist.count = tObs.n
    /\ bucketSum(tHist) = tObs.n

C1_Witness ==
    /\ tObs.n = MaxObs
    /\ tHist.buckets[Len(BUCKETS_MS) + 1] > 0
    /\ tHist.buckets[1] > 0
    /\ tObs.nErr > 0

(* C3: for totalUsers >= 0 and shardCount >= 1 the ranges of the shard     *)
(* indexes 0 .. shardCount-1 are pairwise disjoint, and once all are       *)
(* computed their union is exactly [0, totalUsers).                        *)
C3_ShardsPartition ==
    /\ \A i, j \in DOMAIN shardT.ranges :
          i # j => rangeMembers(shardT.ranges[i]) \cap rangeMembers(shardT.ranges[j]) = {}
    /\ DOMAIN shardT.ranges = 0..(shardT.shardCount - 1) =>
          UNION {rangeMembers(shardT.ranges[i]) : i \in DOMAIN shardT.ranges}
              = 0..(shardT.totalUsers - 1)

\* all shards computed, an uneven split, and a trailing shard whose start
\* lies beyond totalUsers
C3_Witness ==
    /\ DOMAIN shardT.ranges = 0..(shardT.shardCount - 1)
    /\ shardT.totalUsers = 5
    /\ shardT.shardCount = 4
    /\ shardT.ranges[3].start > shardT.ranges[3].end

----------------------------------------------------------------------------
(* Vocabulary of the unaryWithRetry claims, over the recorded attempts *)

TransientCodes == {UNAVAILABLE, DEADLINE_EXCEEDED, RESOURCE_EXHAUSTED, UNKNOWN}

IsFailure(e) == e.kind # "null"
IsAccepted(e) == e.kind = "coded" /\ e.code \in rPolicy.acceptErrorCodes
IsTransient(e) == e.kind = "coded" /\ e.code \in TransientCodes
IsTerminal(e) == IsFailure(e) /\ ~IsAccepted(e) /\ ~IsTransient(e)

RECURSIVE TraceMs(_)
TraceMs(t) == IF t = <<>> THEN 0 ELSE Head(t).ms + TraceMs(Tail(t))

Returned == rCall.st = "returned"

(* C4: when the first attempt fails with an error whose code is in         *)
(* acceptErrorCodes, the call returns ok = true after exactly 1 attempt    *)
(* with acceptedError set, the histogram's count grows by 1 and its err    *)
(* counter is unchanged.                                                   *)
C4_AcceptedFirstAttempt ==
    (Len(rTrace) >= 1 /\ IsAccepted(rTrace[1].err)) =>
        /\ Returned
        /\ Len(rTrace) = 1
        /\ rCall.ret.ok
        /\ rCall.ret.attemptCount = 1
        /\ rCall.ret.acceptedError = rTrace[1].err
        /\ rHist.count = rHist0.count + 1
        /\ rHist.err = rHist0.err

\* the accepted code is also a transient one and attempts remain
C4_Witness ==
    /\ Returned
    /\ Len(rTrace) = 1
    /\ IsAccepted(rTrace[1].err)
    /\ IsTransient(rTrace[1].err)
    /\ rPolicy.maxAttempts = MaxAttemptsBound
    /\ rHist0.err > 0

(* C5: an attempt failing with an error that is neither accepted nor       *)
(* retryable is the last attempt: the call returns ok = false with that    *)
(* error, attemptCount the number of attempts made (1 when it is the first *)
(* attempt) and the histogram's err grows by exactly 1.                    *)
C5_TerminalErrorEndsCall ==
    \A k \in 1..Len(rTrace) :
        IsTerminal(rTrace[k].err) =>
            /\ k = Len(rTrace)
            /\ Returned
            /\ ~rCall.ret.ok
            /\ rCall.ret.err = rTrace[k].err
            /\ rCall.ret.attemptCount = k
            /\ rHist.err = rHist0.err + 1
            /\ rHist.count = rHist0.count + 1

C5_Witness ==
    /\ Returned
    /\ Len(rTrace) = 1
    /\ rTrace[1].err = GrpcError(INVALID_ARGUMENT)
    /\ rPolicy.maxAttempts = MaxAttemptsBound
    /\ rCall.ret.attemptCount = 1

(* C6: when the first maxAttempts-1 attempts fail with retryable errors    *)
(* and the last attempt succeeds, the call returns ok = true with          *)
(* attemptCount = maxAttempts and records one latency, the sum of the      *)
(* durations of all attempts, with isError = false.                        *)
C6_SummedLatencyOnLateSuccess ==
    (/\ Len(rTrace) = rPolicy.maxAttempts
     /\ Len(rTrace) >= 1
     /\ \A k \in 1..(Len(rTrace) - 1) : IsTransient(rTrace[k].err)
     /\ ~IsFailure(rTrace[Len(rTrace)].err)) =>
        /\ Returned
        /\ rCall.ret.ok
        /\ rCall.ret.attemptCount = rPolicy.maxAttempts
        /\ rHist.count = rHist0.count + 1
        /\ rHist.err = rHist0.err
        /\ rHist.sumMs = rHist0.sumMs + TraceMs(rTrace)
        /\ rHist.maxMs = Max(rHist0.maxMs, TraceMs(rTrace))
        /\ rHist.buckets = [rHist0.buckets EXCEPT ![bucketIndex(TraceMs(rTrace))] = @ + 1]

\* three attempts of different durations, the last one the success
C6_Witness ==
    /\ Returned
    /\ rPolicy.maxAttempts = MaxAttemptsBound
    /\ Len(rTrace) = MaxAttemptsBound
    /\ ~IsFailure(rTrace[Len(rTrace)].err)
    /\ rTrace[1].ms # rTrace[Len(rTrace)].ms
    /\ rCall.ret.ok

(* C7: when every attempt fails with a retryable, non-accepted error the   *)
(* call makes exactly maxAttempts attempts, one after another and never    *)
(* more, then returns ok = false with the error of the last attempt, and   *)
(* the histogram's err grows by exactly 1.                                 *)
C7_ExhaustedBudget ==
    /\ Len(rTrace) <= Max(rPolicy.maxAttempts, 0)
    /\ rCall.st = "inflight" => rCall.attempt = Len(rTrace) + 1
    /\ (/\ Returned
        /\ Len(rTrace) >= 1
        /\ \A k \in 1..Len(rTrace) :
              IsTransient(rTrace[k].err) /\ ~IsAccepted(rTrace[k].err)) =>
            /\ Len(rTrace) = rPolicy.maxAttempts
            /\ ~rCall.ret.ok
            /\ rCall.ret.err = rTrace[Len(rTrace)].err
            /\ rCall.ret.attemptCount = rPolicy.maxAttempts
            /\ rHist.err = rHist0.err + 1
            /\ rHist.count = rHist0.count + 1

\* the budget is used up by different transient errors
C7_Witness ==
    /\ Returned
    /\ rPolicy.maxAttempts = MaxAttemptsBound
    /\ Len(rTrace) = MaxAttemptsBound
    /\ \A k \in 1..Len(rTrace) : IsTransient(rTrace[k].err) /\ ~IsAccepted(rTrace[k].err)
    /\ rTrace[1].err # rTrace[Len(rTrace)].err
    /\ ~rCall.ret.ok

(* C8: every call of unaryWithRetry observes into its histogram exactly    *)
(* once, on returning, whatever the number of attempts and the outcome;    *)
(* err is incremented only when the call returns ok = false.               *)
C8_OneObservePerCall ==
    /\ ~Returned => rHist = rHist0
    /\ Returned =>
          /\ rHist.count = rHist0.count + 1
          /\ bucketSum(rHist) = bucketSum(rHist0) + 1
          /\ rHist.err = rHist0.err + (IF rCall.ret.ok THEN 0 ELSE 1)

\* a call that slept between attempts before it succeeded
C8_Witness ==
    /\ Returned
    /\ Len(rTrace) >= 2
    /\ rCall.ret.ok
    /\ rHist0.count > 0

----------------------------------------------------------------------------
(* Vocabulary of the runPerf claims *)

\* the phase of the run, from the await at which runPerf stands
phase ==
    CASE pc \in {"start", "login_await"} -> "LOGIN"
      [] pc = "create_await" -> "CREATE_ROOM"
      [] pc = "enter_await" -> "ENTER_ROOM"
      [] pc = "send_await" -> "SEND_MESSAGES"
      [] pc = "done" -> "DONE"
      [] OTHER -> "ABORTED"

PhaseOfMethod ==
    [m \in Methods |->
        CASE m = "Login" -> "LOGIN"
          [] m = "CreateRoom" -> "CREATE_ROOM"
          [] m = "EnterRoom" -> "ENTER_ROOM"
          [] OTHER -> "SEND_MESSAGES"]

PhaseSteps ==
    IF cfg.mode = "login"
    THEN {<<"LOGIN", "DONE">>}
    ELSE {<<"LOGIN", "CREATE_ROOM">>, <<"CREATE_ROOM", "ENTER_ROOM">>,
          <<"ENTER_ROOM", "SEND_MESSAGES">>, <<"SEND_MESSAGES", "DONE">>,
          <<"LOGIN", "ABORTED">>, <<"CREATE_ROOM", "ABORTED">>, <<"ENTER_ROOM", "ABORTED">>}

inFlight(m) == issued[m] - completed[m]

\* logical EnterRoom operations that have returned
enterFinished ==
    IF pc = "enter_await"
    THEN Cardinality(0..(Min(Len(okCreds), loopI + cfg.BATCH_SIZE) - 1)) - Cardinality(pending)
    ELSE IF pc = "send_await" \/ (pc = "done" /\ cfg.mode # "login")
            \/ (pc = "thrown" /\ thrown = "No users entered the room; cannot proceed to chat phase.")
    THEN Len(okCreds)
    ELSE 0

RECURSIVE sentTotal(_)
sentTotal(ls) == IF ls = <<>> THEN 0 ELSE Head(ls).n + sentTotal(Tail(ls))

(* C2: in every interleaving of the workers of a batch and of the send     *)
(* loops no observe is lost or torn: at every point, and so once all       *)
(* workers have finished, count, err and the bucket sum of a histogram     *)
(* equal the number of operations that ended, and of those that ended in   *)
(* failure, as if the observes had been serialized.                        *)
C2_NoLostObserve ==
    /\ histLogin.count = completed["Login"]
    /\ histLogin.err = failed["Login"]
    /\ histLogin.err = Cardinality({idx \in DOMAIN creds : creds[idx] = NullCred})
    /\ bucketSum(histLogin) = completed["Login"]
    /\ histEnterRoom.count = enterFinished
    /\ histEnterRoom.err = enterFinished - Len(enteredUsers)
    /\ bucketSum(histEnterRoom) = enterFinished
    /\ histSend.count = completed["SendMessage"]
    /\ histSend.err = failed["SendMessage"]
    /\ bucketSum(histSend) = completed["SendMessage"]
    /\ (pc = "done" /\ cfg.mode # "login") => histSend.count = sentTotal(loops)

\* a finished run in which two workers shared every batch and two send
\* loops ran side by side, with failures among them
C2_Witness ==
    /\ pc = "done"
    /\ cfg.BATCH_SIZE = 2
    /\ histLogin.count = 2
    /\ histEnterRoom.count = 2
    /\ Len(enteredUsers) = 2
    /\ enteredUsers[1] > enteredUsers[2]
    /\ histSend.count >= 3
    /\ histSend.err >= 1

(* C9: the phases follow one another only as LOGIN, DONE (mode login) or   *)
(* LOGIN, CREATE_ROOM, ENTER_ROOM, SEND_MESSAGES, DONE (mode login_chat,   *)
(* possibly cut short by an abort); an RPC is issued, and is in flight,    *)
(* only in the phase of its method, so none of a later phase is issued     *)
(* before all of the preceding phase have completed; in mode login no      *)
(* CreateRoom, EnterRoom or SendMessage RPC is ever issued.                *)
C9_PhaseOrder ==
    /\ [](\A m \in Methods : inFlight(m) > 0 => phase = PhaseOfMethod[m])
    /\ [](cfg.mode = "login" =>
            \A m \in Methods \ {"Login"} : issued[m] = 0)
    /\ [][/\ phase' # phase => <<phase, phase'>> \in PhaseSteps
          /\ \A m \in Methods : issued'[m] > issued[m] =>
                /\ phase' = PhaseOfMethod[m]
                /\ \A e \in Methods \ {m} : inFlight(e) = 0]_vars

\* a login_chat run that went through every phase and sent messages
C9_Witness ==
    /\ pc = "done"
    /\ cfg.mode = "login_chat"
    /\ issued["Login"] = 2
    /\ issued["CreateRoom"] = 2
    /\ issued["EnterRoom"] >= 2
    /\ issued["SendMessage"] >= 2

(* C10: every user number is issued at most one Login RPC whatever the     *)
(* answer, none outside the shard's range [start, end), and once the LOGIN *)
(* phase is over every user of the range has been issued exactly one and   *)
(* the login histogram's count is the number of users of the shard.        *)
C10_OneLoginPerUser ==
    /\ \A u \in DOMAIN loginRpcs :
          /\ loginRpcs[u] <= 1
          /\ u \notin rangeMembers(shard) => loginRpcs[u] = 0
    /\ issued["Login"] = Cardinality({u \in DOMAIN loginRpcs : loginRpcs[u] = 1})
    /\ phase # "LOGIN" =>
          /\ \A u \in rangeMembers(shard) : loginRpcs[u] = 1
          /\ histLogin.count = Cardinality(rangeMembers(shard))
          /\ histLogin.count = shard.count

\* a shard that does not start at user 0, whose only login failed
C10_Witness ==
    /\ phase # "LOGIN"
    /\ shard.start > 0
    /\ shard.count > 0
    /\ histLogin.err > 0

(* C11: the batches of LOGIN and of ENTER_ROOM are strictly sequential and *)
(* hold at most BATCH_SIZE users: the workers in flight are never more     *)
(* than BATCH_SIZE and all belong to the batch at i, and a worker of the   *)
(* next batch starts only when every worker and RPC of the batch before    *)
(* it has finished; the next batch begins BATCH_SIZE positions further.    *)
C11_SequentialBatches ==
    /\ [](/\ Cardinality(pending) <= cfg.BATCH_SIZE
          /\ inFlight("Login") <= cfg.BATCH_SIZE
          /\ inFlight("EnterRoom") <= cfg.BATCH_SIZE
          /\ pc \in {"login_await", "enter_await"} =>
                \A x \in pending : loopI <= x /\ x < loopI + cfg.BATCH_SIZE)
    /\ [][ (pending' \ pending # {}) =>
              /\ pending = {}
              /\ inFlight("Login") = 0
              /\ inFlight("EnterRoom") = 0
              /\ \A k \in DOMAIN enterCalls : enterCalls[k].st = "returned"
              /\ pc' = pc => \A x \in pending' : x >= loopI + cfg.BATCH_SIZE ]_vars

\* the second enter batch is in flight after the user of the first one failed
C11_Witness ==
    /\ pc = "enter_await"
    /\ cfg.BATCH_SIZE = 1
    /\ loopI = 1
    /\ pending = {1}
    /\ histEnterRoom.err = 1
    /\ histLogin.count = 2

\* users whose Login answered a credential; users whose EnterRoom call returned ok
loggedIn == {u \in DOMAIN loginRpcs : \E idx \in DOMAIN creds : creds[idx] = OkCred(u)}
entered == {u \in DOMAIN enterOps : enterOps[u].result = "ok"}

enterPhaseOver ==
    \/ pc = "send_await"
    \/ pc = "done" /\ cfg.mode # "login"
    \/ pc = "thrown" /\ thrown = "No users entered the room; cannot proceed to chat phase."

(* C12: a user whose login failed takes no part in any later phase: the    *)
(* users that attempt CreateRoom or EnterRoom hold a credential, and once  *)
(* ENTER_ROOM is over the users that attempted EnterRoom are exactly the   *)
(* credential holders; the users that send messages are among those whose  *)
(* EnterRoom returned ok (succeeded or was accepted).                      *)
C12_OnlyLoggedInProceed ==
    /\ rpcUsers["CreateRoom"] \subseteq loggedIn
    /\ rpcUsers["EnterRoom"] \subseteq loggedIn
    /\ {u \in DOMAIN enterOps : enterOps[u].calls > 0} = rpcUsers["EnterRoom"]
    /\ enterPhaseOver => rpcUsers["EnterRoom"] = loggedIn
    /\ entered \subseteq rpcUsers["EnterRoom"]
    /\ {enteredUsers[p] : p \in DOMAIN enteredUsers} = entered
    /\ rpcUsers["SendMessage"] \subseteq entered
    /\ \A idx \in DOMAIN creds :
          creds[idx] = NullCred =>
             /\ enterOps[shard.start + idx].calls = 0
             /\ \A m \in DOMAIN rpcUsers : (shard.start + idx) \notin rpcUsers[m]

\* user 0 failed to log in and user 1 went on alone to send a message
C12_Witness ==
    /\ 0 \in DOMAIN creds
    /\ creds[0] = NullCred
    /\ shard.start = 0
    /\ rpcUsers["SendMessage"] = {1}
    /\ histLogin.err = 1

(* C13: in mode login_chat with at least one successful login exactly one  *)
(* logical CreateRoom operation is performed (the create_room count is 1   *)
(* from its return on, and never more), every attempt of it carries the    *)
(* credential of the lowest-indexed logged-in user whatever the order in   *)
(* which the logins were answered, and an ALREADY_EXISTS answer makes the  *)
(* operation a success.  Without a successful login, or in mode login, no  *)
(* CreateRoom is performed.                                                *)
C13_OneCreateRoomByFirstUser ==
    /\ histCreateRoom.count <= 1
    /\ histCreateRoom.count = IF createCall.st = "returned" THEN 1 ELSE 0
    /\ (cfg.mode # "login" /\ loggedIn # {} /\ phase \notin {"LOGIN", "CREATE_ROOM"}) =>
          createCall.st = "returned"
    /\ (cfg.mode = "login" \/ (phase # "LOGIN" /\ loggedIn = {})) =>
          createCall.st = "idle" /\ issued["CreateRoom"] = 0
    /\ issued["CreateRoom"] > 0 => Cardinality(rpcUsers["CreateRoom"]) = 1
    /\ \A u \in rpcUsers["CreateRoom"] :
          u \in loggedIn /\ \A v \in loggedIn : u <= v
    /\ (createCall.st = "returned" /\ createCall.lastErr = GrpcError(ALREADY_EXISTS)) =>
          /\ createCall.ret.ok
          /\ createCall.ret.acceptedError = GrpcError(ALREADY_EXISTS)
          /\ histCreateRoom.err = 0
          /\ thrown # "CreateRoom failed"

\* user 0 failed to log in; the CreateRoom of user 1 was retried and then
\* answered ALREADY_EXISTS, and the run went on to ENTER_ROOM
C13_Witness ==
    /\ pc = "enter_await"
    /\ 0 \in DOMAIN creds
    /\ creds[0] = NullCred
    /\ rpcUsers["CreateRoom"] = {1}
    /\ createCall.ret.attemptCount = 2
    /\ createCall.ret.acceptedError = GrpcError(ALREADY_EXISTS)
    /\ histCreateRoom.count = 1

(* C14: when CreateRoom ultimately fails (a non-retryable error, or the     *)
(* retry budget exhausted), runPerf aborts with a thrown error: the only   *)
(* step left is the throw, and no EnterRoom or SendMessage RPC is issued   *)
(* at any time of such a run.                                              *)
C14_CreateRoomFailureAborts ==
    /\ []((createCall.st = "returned" /\ ~createCall.ret.ok) =>
             /\ pc \in {"create_await", "thrown"}
             /\ pc = "thrown" => thrown = "CreateRoom failed"
             /\ issued["EnterRoom"] = 0
             /\ issued["SendMessage"] = 0
             /\ enterCalls = <<>> /\ loops = <<>>
             /\ histCreateRoom.count = 1 /\ histCreateRoom.err = 1
             /\ Len(out) = 1)
    /\ []((thrown = "CreateRoom failed") =>
             createCall.st = "returned" /\ ~createCall.ret.ok)
    /\ [][ (pc = "create_await" /\ createCall.st = "returned" /\ ~createCall.ret.ok) =>
              pc' = "thrown" /\ thrown' = "CreateRoom failed" ]_vars

\* runPerf threw after CreateRoom used up its two attempts on UNAVAILABLE
C14_Witness ==
    /\ pc = "thrown"
    /\ thrown = "CreateRoom failed"
    /\ cfg.RPC_MAX_ATTEMPTS = 2
    /\ createCall.ret.attemptCount = 2
    /\ createCall.ret.err = GrpcError(UNAVAILABLE)
    /\ issued["CreateRoom"] = 2

(* C15, as stated: whenever no user of a shard that has users logs in      *)
(* successfully, whatever the mode, the scenario ends with a thrown error. *)
C15_NoLoginsAlwaysFatal ==
    (phase # "LOGIN" /\ shard.count > 0 /\ loggedIn = {}) =>
        pc = "thrown" /\ thrown = "No successful logins; aborting chat phase."

(* C15, amended: in mode login_chat, when no user of the shard logs in     *)
(* successfully runPerf throws "No successful logins" right after LOGIN:   *)
(* no CreateRoom, EnterRoom or SendMessage RPC is issued and no summary is *)
(* written.  In mode login the same run ends normally with the login       *)
(* summary reporting users_logged_in = 0.  The error is thrown in no other *)
(* case.                                                                   *)
C15_NoLoginsFatalInChat ==
    /\ (cfg.mode # "login" /\ phase # "LOGIN" /\ loggedIn = {}) =>
          /\ pc = "thrown"
          /\ thrown = "No successful logins; aborting chat phase."
          /\ \A m \in Methods \ {"Login"} : issued[m] = 0
          /\ createCall.st = "idle" /\ enterCalls = <<>> /\ loops = <<>>
          /\ Len(out) = 1
    /\ (cfg.mode = "login" /\ phase # "LOGIN" /\ loggedIn = {}) =>
          /\ pc = "done"
          /\ thrown = ""
          /\ Len(out) = 2
          /\ out[2].name = "login"
          /\ out[2].extra.users_logged_in = 0
    /\ thrown = "No successful logins; aborting chat phase." =>
          cfg.mode # "login" /\ loggedIn = {}

\* both users of the shard failed to log in and the chat run was aborted
C15_Witness ==
    /\ pc = "thrown"
    /\ thrown = "No successful logins; aborting chat phase."
    /\ cfg.mode = "login_chat"
    /\ histLogin.count = 2
    /\ histLogin.err = 2

(* C16: in ENTER_ROOM each logged-in user performs exactly one logical     *)
(* enter operation, a retried one included, and nobody else performs one;  *)
(* an ALREADY_EXISTS answer ends the operation as entered.  A user's       *)
(* failure never keeps the others from attempting: once the phase is over  *)
(* the enter_room count equals the number of logged-in users and           *)
(* users_entered equals count - err, as the enter_room record reports.     *)
C16_OneEnterPerLoggedInUser ==
    /\ \A u \in DOMAIN enterOps :
          /\ enterOps[u].calls <= 1
          /\ enterOps[u].calls = 1 => u \in loggedIn
          /\ enterOps[u].calls = 0 <=> enterOps[u].result = "none"
    /\ \A k \in DOMAIN enterCalls :
          (enterCalls[k].st = "returned" /\ enterCalls[k].lastErr = GrpcError(ALREADY_EXISTS)) =>
             /\ enterCalls[k].ret.ok
             /\ enterOps[okCreds[k + 1]].result = "ok"
    /\ histEnterRoom.count =
          Cardinality({u \in DOMAIN enterOps : enterOps[u].result \in {"ok", "failed"}})
    /\ histEnterRoom.err = Cardinality({u \in DOMAIN enterOps : enterOps[u].result = "failed"})
    /\ Len(enteredUsers) = histEnterRoom.count - histEnterRoom.err
    /\ enterPhaseOver =>
          /\ \A u \in loggedIn : enterOps[u].calls = 1 /\ enterOps[u].result \in {"ok", "failed"}
          /\ histEnterRoom.count = Cardinality(loggedIn)
          /\ histEnterRoom.count = Len(okCreds)
    /\ (pc = "done" /\ cfg.mode # "login") =>
          /\ out[4].name = "enter_room"
          /\ out[4].count = Cardinality(loggedIn)
          /\ out[4].extra.users_entered = out[4].count - out[4].err

\* the first user's EnterRoom failed for good, the second user's was retried
\* and then accepted on ALREADY_EXISTS; the run went on with one entrant
C16_Witness ==
    /\ pc = "enter_await"
    /\ pending = {}
    /\ cfg.BATCH_SIZE = 1
    /\ Len(okCreds) = 2
    /\ enterOps[0].result = "failed"
    /\ enterOps[1].result = "ok"
    /\ 1 \in DOMAIN enterCalls
    /\ enterCalls[1].ret.attemptCount = 2
    /\ enterCalls[1].ret.acceptedError = GrpcError(ALREADY_EXISTS)
    /\ histEnterRoom.count = 2
    /\ histEnterRoom.err = 1

(* C17: when ENTER_ROOM ends with no user entered, runPerf aborts with a   *)
(* thrown error before any SendMessage is issued; when at least one user   *)
(* entered it proceeds to SEND_MESSAGES even though other users' entries   *)
(* failed, and it aborts with that error in no other case.                 *)
C17_NoEntrantsAborts ==
    /\ []((enterPhaseOver /\ entered = {}) =>
             /\ pc = "thrown"
             /\ thrown = "No users entered the room; cannot proceed to chat phase."
             /\ issued["SendMessage"] = 0
             /\ loops = <<>>)
    /\ []((thrown = "No users entered the room; cannot proceed to chat phase.") =>
             /\ entered = {}
             /\ histEnterRoom.err = histEnterRoom.count
             /\ issued["SendMessage"] = 0)
    /\ [][ (pc = "enter_await" /\ pc' # pc) =>
              IF entered = {}
              THEN pc' = "thrown"
              ELSE /\ pc' = "send_await"
                   /\ thrown' = ""
                   /\ DOMAIN loops' = 1..Cardinality(entered) ]_vars

\* one user entered, the other's EnterRoom failed, and messages are sent
C17_Witness ==
    /\ pc = "send_await"
    /\ Cardinality(entered) = 1
    /\ histEnterRoom.err = 1
    /\ histEnterRoom.count = 2
    /\ issued["SendMessage"] >= 1

(* C18: when the configured message rate is zero no entered user issues a  *)
(* SendMessage RPC at any time of the run, and the count of the            *)
(* send_message histogram stays 0 up to the record written at the end.     *)
C18_ZeroRateSendsNothing ==
    cfg.MSG_RATE = 0 =>
        /\ issued["SendMessage"] = 0
        /\ rpcUsers["SendMessage"] = {}
        /\ histSend.count = 0
        /\ \A p \in DOMAIN loops : loops[p].st = "done" /\ loops[p].n = 0
        /\ (pc = "done" /\ cfg.mode # "login") =>
              out[5].name = "send_message" /\ out[5].count = 0

\* a run with rate 0 went through a send phase of one second with two
\* entered users and wrote its records
C18_Witness ==
    /\ cfg.MSG_RATE = 0
    /\ cfg.DURATION_SEC = 1
    /\ pc = "done"
    /\ Len(enteredUsers) = 2
    /\ Len(out) = 5

(* C19: in SEND_MESSAGES each loop iteration issues exactly one            *)
(* SendMessage attempt, and each answered attempt is observed exactly once *)
(* with isError set iff it failed.  A failed send is not retried (the loop *)
(* goes back to its test and sleep) and stops neither its own loop, which  *)
(* ends only at its deadline, nor any other loop; so once the loops have   *)
(* ended the send_message count equals the number of SendMessage RPCs      *)
(* issued.                                                                 *)
C19_OneSendPerIteration ==
    /\ [](/\ issued["SendMessage"] = sentTotal(loops)
          /\ histSend.count = completed["SendMessage"]
          /\ histSend.err = failed["SendMessage"]
          /\ inFlight("SendMessage") =
                Cardinality({p \in DOMAIN loops : loops[p].st = "inflight"})
          /\ (pc = "done" /\ cfg.mode # "login") =>
                /\ histSend.count = issued["SendMessage"]
                /\ out[5].count = issued["SendMessage"]
                /\ out[5].err = failed["SendMessage"])
    /\ [][ /\ issued'["SendMessage"] - issued["SendMessage"] \in {0, 1}
           /\ histSend'.count - histSend.count =
                 completed'["SendMessage"] - completed["SendMessage"]
           /\ completed'["SendMessage"] - completed["SendMessage"] \in {0, 1}
           /\ \A p \in DOMAIN loops :
                 /\ (loops[p].st = "inflight" /\ loops'[p] # loops[p]) =>
                       /\ issued' = issued
                       /\ loops'[p].n = loops[p].n
                       /\ loops'[p].st = IF now' < endTime THEN "sleeping" ELSE "done"
                       /\ \A q \in DOMAIN loops \ {p} : loops'[q] = loops[q]
                 /\ (loops[p].st = "sleeping" /\ loops'[p] # loops[p]) =>
                       /\ loops'[p].st = "inflight"
                       /\ loops'[p].n = loops[p].n + 1
                       /\ issued'["SendMessage"] = issued["SendMessage"] + 1 ]_vars

\* the first send of a user failed and the same user has sent again, while
\* the other user's loop goes on
C19_Witness ==
    /\ pc = "send_await"
    /\ Len(loops) = 2
    /\ histSend.err >= 1
    /\ loops[1].n = 2
    /\ failed["SendMessage"] = completed["SendMessage"]
    /\ loops[2].st # "done"

(* C20: the SEND_MESSAGES phase runs for exactly durationSeconds: it does  *)
(* not end before the deadline endTime = phase start + durationSeconds,    *)
(* and no user starts a SendMessage attempt once that deadline has passed. *)
C20_ExactDuration ==
    [][ /\ (pc = "send_await" /\ pc' = "done") => now >= endTime
        /\ issued'["SendMessage"] > issued["SendMessage"] => now' <= endTime ]_vars

\* the names of the metrics records written so far, in order
metricNames == [j \in 1..(Len(out) - 1) |-> out[j + 1].name]

(* C21: the run_start record is written exactly once, as the first record  *)
(* and before any RPC is issued; metrics records are written only on       *)
(* reaching DONE, all in one step and with no RPC in flight: exactly one   *)
(* (login) in mode login, exactly four (login, create_room, enter_room,    *)
(* send_message, in this order) in mode login_chat, after every send loop  *)
(* has ended.  A run that throws writes no metrics record.                 *)
C21_SummariesOnlyAtDone ==
    /\ [](/\ pc = "start" => out = <<>> /\ \A m \in Methods : issued[m] = 0
          /\ pc # "start" => Len(out) >= 1 /\ out[1] = runStartRecord
          /\ \A j \in DOMAIN out :
                IF j = 1 THEN out[j].kind = "tester_run_start"
                ELSE out[j].kind = "tester_metrics"
          /\ pc # "done" => Len(out) <= 1
          /\ pc = "done" =>
                /\ metricNames = IF cfg.mode = "login" THEN <<"login">>
                                 ELSE <<"login", "create_room", "enter_room", "send_message">>
                /\ \A m \in Methods : inFlight(m) = 0
                /\ \A p \in DOMAIN loops : loops[p].st = "done")
    /\ [][ out' # out =>
              \/ pc = "start" /\ out = <<>> /\ \A m \in Methods : issued[m] = 0
              \/ /\ pc' = "done" /\ pc # "done"
                 /\ Len(out') > Len(out)
                 /\ SubSeq(out', 1, Len(out)) = out
                 /\ issued' = issued ]_vars

\* a login_chat run that sent messages has written its five records
C21_Witness ==
    /\ pc = "done"
    /\ cfg.mode = "login_chat"
    /\ Len(out) = 5
    /\ out[5].name = "send_message"
    /\ out[5].count >= 1

(* C22: in mode login, whatever subset of the logins fails, the run never  *)
(* throws, and once it has completed its login metrics record shows        *)
(* count = number of shard users, err = number of failed logins and        *)
(* users_logged_in = count - err; 10 users all succeeding give count = 10, *)
(* err = 0 and users_logged_in = 10.                                       *)
C22_LoginModeSummary ==
    cfg.mode = "login" =>
        /\ pc # "thrown" /\ thrown = ""
        /\ pc = "done" =>
              /\ Len(out) = 2
              /\ out[2].name = "login"
              /\ out[2].count = shard.count
              /\ out[2].err = Cardinality({idx \in DOMAIN creds : creds[idx] = NullCred})
              /\ out[2].err = failed["Login"]
              /\ out[2].extra.users_attempted = shard.count
              /\ out[2].extra.users_logged_in = out[2].count - out[2].err
              /\ out[2].extra.users_logged_in = Cardinality(loggedIn)
              /\ (cfg.usersTotal = 10 /\ failed["Login"] = 0) =>
                    /\ out[2].count = 10
                    /\ out[2].err = 0
                    /\ out[2].extra.users_logged_in = 10

\* the run of 10 users in mode login completed with every login successful
C22_Witness ==
    /\ cfg.mode = "login"
    /\ cfg.usersTotal = 10
    /\ pc = "done"
    /\ out[2].count = 10
    /\ out[2].err = 0
    /\ out[2].extra.users_logged_in = 10

----------------------------------------------------------------------------
(* The log comparator (compare-perf-logs.ps1) *)

\* $null, for the comparator's numeric values (all others are >= 0)
PsNull == -1

\* PowerShell's conversion of an array to a condition: an empty array is
\* false, an array of one element is what that element is, any other is true
psArrayTrue(a) ==
    IF Len(a) = 0 THEN FALSE
    ELSE IF Len(a) = 1 THEN a[1] # 0
    ELSE TRUE

\* conversion of a number or $null to a condition
psTrue(v) == v # PsNull /\ v # 0

MaxBuckets == 5

\* a plausible slip: the target rounded down
p95Target_floor(total) == (95 * total) \div 100

\* [math]::Ceiling(0.95 * $total)
p95Target(total) == CeilDiv(95 * total, 100)

\* the for loop of Get-P95FromHistogram from index i (counted from 0, as in
\* the script) with $cum = cum
RECURSIVE p95Walk(_, _, _, _, _)
p95Walk(BucketsMs, Buckets, i, cum, target) ==
    IF i >= Len(Buckets) THEN BucketsMs[Len(BucketsMs)]
    ELSE LET c == cum + Buckets[i + 1]
         IN  IF c >= target
             THEN IF i < Len(BucketsMs) THEN BucketsMs[i + 1]
                  ELSE BucketsMs[Len(BucketsMs)]
             ELSE p95Walk(BucketsMs, Buckets, i + 1, c, target)

Get_P95FromHistogram(BucketsMs, Buckets) ==
    IF ~psArrayTrue(BucketsMs) \/ ~psArrayTrue(Buckets) THEN PsNull
    ELSE LET total == SumSeq(Buckets)
         IN  IF total <= 0 THEN PsNull
             ELSE p95Walk(BucketsMs, Buckets, 0, 0, p95Target(total))

----------------------------------------------------------------------------
(* Specification SpecP95: Get-P95FromHistogram called once on a histogram *)

P95Boundaries == {<<>>, <<0>>, <<1, 2>>, <<1, 2, 5, 10>>}

P95Counts == {0, 1, 10, 19}

P95Histograms == UNION {[1..n -> P95Counts] : n \in 0..MaxBuckets}

InitP95 ==
    /\ HistIdle
    /\ ShardIdle
    /\ RetryIdle
    /\ RunIdle
    /\ CompareIdle
    /\ ProcIdle
    /\ RoomsIdle
    /\ ChatIdle
    /\ pBucketsMs \in P95Boundaries
    /\ pBuckets \in P95Histograms
    /\ pResult = <<>>

CallP95 ==
    /\ pResult = <<>>
    /\ pResult' = <<Get_P95FromHistogram(pBucketsMs, pBuckets)>>
    /\ UNCHANGED <<pBucketsMs, pBuckets>>
    /\ UNCHANGED <<histVars, shardVars, retryVars, runVars, cmpVars, procVars, roomVars, chatVars>>

NextP95 == CallP95

SpecP95 == InitP95 /\ [][NextP95]_vars

\* the number of samples in the first k buckets
cumCount(k) == SumSeq(SubSeq(pBuckets, 1, k))

\* the buckets, counted from 1, at which the cumulative count has reached
\* ceil(0.95 * total)
reached95 ==
    {k \in 1..Len(pBuckets) : 100 * cumCount(k) >= 95 * SumSeq(pBuckets)}

firstReached95 == CHOOSE k \in reached95 : \A j \in reached95 : k <= j

\* C25: for a non-empty histogram with boundaries, Get-P95FromHistogram
\* returns the boundary of the first bucket, in ascending order, at which the
\* cumulative count reaches ceil(0.95 * total), and the last boundary when
\* that bucket lies past the boundaries (the overflow bucket); for
\* boundaries [1,2,5,10] and counts [0,0,0,10,0] it returns 10
C25_P95BucketWalk ==
    pResult # <<>> =>
        /\ (psArrayTrue(pBucketsMs) /\ SumSeq(pBuckets) > 0) =>
              /\ reached95 # {}
              /\ pResult[1] = pBucketsMs[Min(firstReached95, Len(pBucketsMs))]
        /\ (pBucketsMs = <<1, 2, 5, 10>> /\ pBuckets = <<0, 0, 0, 10, 0>>) =>
              pResult[1] = 10

C25_Witness ==
    /\ pBucketsMs = <<1, 2, 5, 10>>
    /\ pBuckets = <<0, 0, 0, 10, 0>>
    /\ pResult = <<10>>

----------------------------------------------------------------------------
(* The comparator's reading of one log file *)

RECURSIVE gcd(_, _)
gcd(a, b) == IF b = 0 THEN a ELSE gcd(b, a % b)

\* a [double] held as the fraction n/d in lowest terms; $null is PsNull/1
psDouble(n, d) ==
    IF n = PsNull THEN <<PsNull, 1>>
    ELSE LET g == gcd(n, d) IN IF g = 0 THEN <<0, 1>> ELSE <<n \div g, d \div g>>

\* One line of a log file. kind "text" is a line Try-ParseJsonFromLine
\* returns $null for; the other lines are the JSON records the tester writes,
\* reduced to the properties Parse-LogMetrics reads (PsNull or <<>> for a
\* property the record does not have): users is the first of users_total,
\* ..., users_attempted, duration the first of duration_sec, ...,
\* throughput the first of msg_throughput_per_sec, ... p95_ms is a property
\* of the record that Parse-LogMetrics does not read.
logLine(kind, name, users, duration, count, err, avg_ms, buckets_ms, buckets, throughput) ==
    [kind |-> kind, name |-> name, users |-> users, duration |-> duration,
     count |-> count, err |-> err, avg_ms |-> avg_ms, buckets_ms |-> buckets_ms,
     buckets |-> buckets, throughput |-> throughput, p95_ms |-> PsNull]

textLine ==
    logLine("text", "", PsNull, PsNull, PsNull, PsNull, PsNull, <<>>, <<>>, PsNull)

startLine ==
    logLine("tester_run_start", "", 10, 2, PsNull, PsNull, PsNull, <<>>, <<>>, PsNull)

login10 ==
    logLine("tester_metrics", "login", 10, PsNull, 10, 0, 3,
            <<1, 2, 5, 10>>, <<0, 0, 0, 10, 0>>, PsNull)

login20 ==
    logLine("tester_metrics", "login", 20, PsNull, 20, 1, 7,
            <<1, 2, 5, 10>>, <<0, 0, 19, 0, 1>>, PsNull)

send30 ==
    logLine("tester_metrics", "send_message", PsNull, 2, 30, 0, 1,
            <<1, 2, 5, 10>>, <<30, 0, 0, 0, 0>>, 15)

\* one message in a phase of 10000 s: the throughput, rounded to three
\* decimals, is written as 0; the record also states its 95th percentile
slowSend ==
    [logLine("tester_metrics", "send_message", PsNull, 10000, 1, 0, 1,
             <<1, 2, 5, 10>>, <<1, 0, 0, 0, 0>>, 0) EXCEPT !.p95_ms = 7]

LinePool == {textLine, startLine, login10, login20, send30}

MaxLogLen == 2

Logs == UNION {[1..n -> LinePool] : n \in 0..MaxLogLen} \cup {<<slowSend>>, <<send30, slowSend>>}

\* the row Parse-LogMetrics adds for the metrics record obj; runStart is <<>>
\* for $null and <<record>> otherwise (scenario and mode, which no output
\* column carries, are left out)
metricRow(obj, runStart) ==
    LET users == IF ~psTrue(obj.users) /\ runStart # <<>>
                 THEN runStart[1].users ELSE obj.users
        runDuration == IF runStart # <<>> THEN runStart[1].duration ELSE PsNull
        duration == IF ~psTrue(obj.duration) THEN runDuration ELSE obj.duration
        p95Ms == IF psArrayTrue(obj.buckets_ms) /\ psArrayTrue(obj.buckets)
                 THEN Get_P95FromHistogram(obj.buckets_ms, obj.buckets)
                 ELSE PsNull
        throughput ==
            IF ~psTrue(obj.throughput) /\ psTrue(obj.count) /\ psTrue(duration)
                  /\ duration > 0
            THEN psDouble(obj.count, duration)
            ELSE psDouble(obj.throughput, 1)
    IN  [metric_name |-> obj.name, throughput_per_sec |-> throughput,
         avg_ms |-> obj.avg_ms, p95_ms |-> p95Ms, count |-> obj.count,
         err |-> obj.err, users_total |-> users, duration_sec |-> duration]

\* the ForEach-Object block of Parse-LogMetrics from line i of the file on
RECURSIVE parseFrom(_, _, _)
parseFrom(lines, i, runStart) ==
    IF i > Len(lines) THEN <<>>
    ELSE LET obj == lines[i]
         IN  IF obj.kind = "text" THEN parseFrom(lines, i + 1, runStart)
             ELSE IF obj.kind = "tester_run_start" THEN parseFrom(lines, i + 1, <<obj>>)
             ELSE IF obj.kind # "tester_metrics" THEN parseFrom(lines, i + 1, runStart)
             ELSE <<metricRow(obj, runStart)>> \o parseFrom(lines, i + 1, runStart)

Parse_LogMetrics(lines) == parseFrom(lines, 1, <<>>)

\* a plausible slip: a name already in the map keeps its first row
mapSet_keepFirst(map, r) ==
    [n \in DOMAIN map \cup {r.metric_name} |->
        IF n \in DOMAIN map THEN map[n] ELSE r]

\* $map[$r.metric_name] = $r
mapSet(map, r) ==
    [n \in DOMAIN map \cup {r.metric_name} |->
        IF n = r.metric_name THEN r ELSE map[n]]

RECURSIVE indexFrom(_, _, _)
indexFrom(MetricRows, i, map) ==
    IF i > Len(MetricRows) THEN map
    ELSE indexFrom(MetricRows, i + 1, mapSet(map, MetricRows[i]))

Index_ByMetricName(MetricRows) == indexFrom(MetricRows, 1, <<>>)

----------------------------------------------------------------------------
(* Specification SpecCompare: one run of the comparator over its pairs *)

\* Sort-Object orders the operation names alphabetically
NameOrder == <<"create_room", "enter_room", "login", "send_message">>

\* a plausible slip: only the names found in both files
metricNamesOf_both(monoBy, microBy) ==
    SelectSeq(NameOrder, LAMBDA n : n \in DOMAIN monoBy \cap DOMAIN microBy)

\* @($monoBy.Keys + $microBy.Keys | Sort-Object -Unique)
metricNamesOf(monoBy, microBy) ==
    SelectSeq(NameOrder, LAMBDA n : n \in DOMAIN monoBy \cup DOMAIN microBy)

NullSide ==
    [users_total |-> PsNull, throughput_per_sec |-> psDouble(PsNull, 1),
     avg_ms |-> PsNull, p95_ms |-> PsNull, count |-> PsNull, err |-> PsNull]

\* the six columns of one side of an output row: if ($mr) { $mr.x } else { $null }
sideOf(by, m) ==
    IF m \in DOMAIN by
    THEN [users_total |-> by[m].users_total,
          throughput_per_sec |-> by[m].throughput_per_sec,
          avg_ms |-> by[m].avg_ms, p95_ms |-> by[m].p95_ms,
          count |-> by[m].count, err |-> by[m].err]
    ELSE NullSide

\* a plausible slip: a missing file read as an empty one
Test_Path_lenient(name) == TRUE

\* Test-Path -LiteralPath (Join-Path $BasePath name)
Test_Path(name) == files[name].exists

\* the rows one iteration of the foreach loop adds for the entry c; the field
\* entry, the index of c in $Comparisons, is not a column of the output
pairRows(idx, c) ==
    LET monoBy == Index_ByMetricName(Parse_LogMetrics(files[c[1]].lines))
        microBy == Index_ByMetricName(Parse_LogMetrics(files[c[2]].lines))
        names == metricNamesOf(monoBy, microBy)
    IN  [j \in 1..Len(names) |->
            [entry |-> idx,
             behavior |-> IF Len(c) >= 3 THEN c[3] ELSE "",
             metric_name |-> names[j],
             mono_file |-> c[1], mono |-> sideOf(monoBy, names[j]),
             micro_file |-> c[2], micro |-> sideOf(microBy, names[j])]]

FileNames == {"mono.log", "micro.log", "gone.log"}

\* $Comparisons: entries (monoFile, microFile, behavior)
ComparisonLists ==
    {<<<<"mono.log", "micro.log", "Login">>>>,
     <<<<"mono.log", "micro.log", "Login">>, <<"micro.log", "mono.log">>>>,
     <<<<"mono.log", "gone.log", "Login">>>>,
     <<<<"gone.log", "micro.log", "Login">>>>,
     <<<<"mono.log", "micro.log", "Login">>, <<"micro.log", "gone.log", "Chat">>>>,
     <<<<"gone.log", "gone.log", "Login">>, <<"mono.log", "micro.log", "Chat">>>>,
     <<<<"mono.log">>>>}

InitCompare ==
    /\ HistIdle
    /\ ShardIdle
    /\ RetryIdle
    /\ RunIdle
    /\ P95Idle
    /\ ProcIdle
    /\ RoomsIdle
    /\ ChatIdle
    /\ \E mono \in Logs, micro \in Logs :
          files = [n \in FileNames |->
                      IF n = "mono.log" THEN [exists |-> TRUE, lines |-> mono]
                      ELSE IF n = "micro.log" THEN [exists |-> TRUE, lines |-> micro]
                      ELSE [exists |-> FALSE, lines |-> <<>>]]
    /\ Comparisons \in ComparisonLists
    /\ cIdx = 1
    /\ all = <<>>
    /\ csv = [written |-> FALSE, rows |-> <<>>]
    /\ cmpThrown = <<>>

\* one iteration of foreach ($c in $Comparisons)
ComparePair ==
    /\ cmpThrown = <<>>
    /\ ~csv.written
    /\ cIdx <= Len(Comparisons)
    /\ LET c == Comparisons[cIdx]
       IN  IF Len(c) < 2
           THEN /\ cmpThrown' = <<"Each comparison entry must have at least 2 items">>
                /\ UNCHANGED <<cIdx, all>>
           ELSE IF ~Test_Path(c[1])
           THEN /\ cmpThrown' = <<"Missing file: ", c[1]>>
                /\ UNCHANGED <<cIdx, all>>
           ELSE IF ~Test_Path(c[2])
           THEN /\ cmpThrown' = <<"Missing file: ", c[2]>>
                /\ UNCHANGED <<cIdx, all>>
           ELSE /\ all' = all \o pairRows(cIdx, c)
                /\ cIdx' = cIdx + 1
                /\ UNCHANGED cmpThrown
    /\ UNCHANGED <<files, Comparisons, csv>>
    /\ UNCHANGED <<histVars, shardVars, retryVars, runVars, p95Vars, procVars, roomVars, chatVars>>

\* $all | Export-Csv, after the loop
ExportCsv ==
    /\ cmpThrown = <<>>
    /\ ~csv.written
    /\ cIdx > Len(Comparisons)
    /\ csv' = [written |-> TRUE, rows |-> all]
    /\ UNCHANGED <<files, Comparisons, cIdx, all, cmpThrown>>
    /\ UNCHANGED <<histVars, shardVars, retryVars, runVars, p95Vars, procVars, roomVars, chatVars>>

NextCompare == ComparePair \/ ExportCsv

SpecCompare == InitCompare /\ [][NextCompare]_vars

\* the operation names of the metrics records of a log
namesIn(lines) ==
    {lines[i].name : i \in {j \in DOMAIN lines : lines[j].kind = "tester_metrics"}}

\* the entries the loop has gone through without an error
compared == 1..(cIdx - 1)

monoLog(k) == files[Comparisons[k][1]].lines

microLog(k) == files[Comparisons[k][2]].lines

\* the positions in $all of the rows of entry k for the operation n
rowsOf(k, n) == {j \in DOMAIN all : all[j].entry = k /\ all[j].metric_name = n}

\* C23: for every compared pair there is exactly one row per operation name
\* in the union of the names of the two logs, and none for another name; the
\* side of a log that lacks the name has all six fields null, the side of a
\* log that has it carries that log's count (a baseline with only login and
\* a variant with login and send_message give two rows, the send_message
\* row with a null baseline side); the CSV written holds exactly these rows
C23_UnionRows ==
    /\ csv.written => csv.rows = all
    /\ \A k \in compared :
           LET monoNames == namesIn(monoLog(k))
               microNames == namesIn(microLog(k))
           IN  /\ \A n \in monoNames \cup microNames : Cardinality(rowsOf(k, n)) = 1
               /\ \A j \in DOMAIN all :
                     all[j].entry = k =>
                         /\ all[j].metric_name \in monoNames \cup microNames
                         /\ all[j].mono = NullSide <=> all[j].metric_name \notin monoNames
                         /\ all[j].micro = NullSide <=> all[j].metric_name \notin microNames
                         /\ all[j].metric_name \in monoNames => all[j].mono.count # PsNull
                         /\ all[j].metric_name \in microNames => all[j].micro.count # PsNull
               /\ (monoNames = {"login"} /\ microNames = {"login", "send_message"}) =>
                     /\ Cardinality({j \in DOMAIN all : all[j].entry = k}) = 2
                     /\ \A j \in rowsOf(k, "send_message") : all[j].mono = NullSide
                     /\ \A j \in rowsOf(k, "login") :
                           all[j].mono # NullSide /\ all[j].micro # NullSide

C23_Witness ==
    /\ csv.written
    /\ monoLog(1) = <<login10>>
    /\ microLog(1) = <<login20, send30>>
    /\ Len(csv.rows) = 2
    /\ csv.rows[2].metric_name = "send_message"
    /\ csv.rows[2].mono = NullSide
    /\ csv.rows[2].micro.count = 30
    /\ csv.rows[1].mono.count = 10
    /\ csv.rows[1].micro.count = 20

\* the metrics records of a log for the operation n, by position in the file
recordsOf(lines, n) ==
    {i \in DOMAIN lines : lines[i].kind = "tester_metrics" /\ lines[i].name = n}

\* the last of them in file order
lastRecord(lines, n) ==
    lines[CHOOSE i \in recordsOf(lines, n) : \A j \in recordsOf(lines, n) : j <= i]

\* the side carries the count, err and avg_ms fields of the record rec and
\* the 95th percentile of rec's histogram
carries(side, rec) ==
    /\ side.count = rec.count
    /\ side.err = rec.err
    /\ side.avg_ms = rec.avg_ms
    /\ side.p95_ms = Get_P95FromHistogram(rec.buckets_ms, rec.buckets)

\* C24: when an operation name occurs in several metrics records of one log
\* file, the row for that file and operation carries the values of the last
\* such record in file order
C24_LastOccurrenceWins ==
    \A j \in DOMAIN all :
        LET k == all[j].entry
            n == all[j].metric_name
        IN  /\ recordsOf(monoLog(k), n) # {} =>
                  carries(all[j].mono, lastRecord(monoLog(k), n))
            /\ recordsOf(microLog(k), n) # {} =>
                  carries(all[j].micro, lastRecord(microLog(k), n))

C24_Witness ==
    /\ csv.written
    /\ monoLog(1) = <<login10, login20>>
    /\ microLog(1) = <<login20, login10>>
    /\ Len(csv.rows) = 1
    /\ csv.rows[1].mono.count = 20
    /\ csv.rows[1].mono.p95_ms = 5
    /\ csv.rows[1].micro.count = 10
    /\ csv.rows[1].micro.p95_ms = 10

\* the entries of $Comparisons that name a log file that does not exist
missingPairs ==
    {k \in DOMAIN Comparisons :
        /\ Len(Comparisons[k]) >= 2
        /\ ~files[Comparisons[k][1]].exists \/ ~files[Comparisons[k][2]].exists}

\* the files entry k names that do not exist
missingFilesOf(k) == {f \in {Comparisons[k][1], Comparisons[k][2]} : ~files[f].exists}

\* C26: when an entry of $Comparisons names a missing log file, the loop does
\* not get past that entry, the error raised at it is "Missing file: " with
\* the name of a missing file of the entry, no row exists for the entry, and
\* no CSV is ever written
C26_MissingFileFatal ==
    \A k \in missingPairs :
        /\ cIdx <= k
        /\ ~csv.written
        /\ \A j \in DOMAIN all : all[j].entry # k
        /\ (cIdx = k /\ cmpThrown # <<>>) =>
              /\ Len(cmpThrown) = 2
              /\ cmpThrown[1] = "Missing file: "
              /\ cmpThrown[2] \in missingFilesOf(k)

\* the second entry names a missing variant log: the rows of the first entry
\* were collected, the run stopped with the error and wrote nothing
C26_Witness ==
    /\ Len(Comparisons) = 2
    /\ missingPairs = {2}
    /\ cIdx = 2
    /\ cmpThrown = <<"Missing file: ", "gone.log">>
    /\ Len(all) >= 1
    /\ ~csv.written

----------------------------------------------------------------------------
(* Specification SpecProc: the tester process (run.js) from start to exit *)

Whitespace == {" ", "\t", "\n"}

RECURSIVE trimStart(_)
trimStart(s) == IF s # <<>> /\ s[1] \in Whitespace THEN trimStart(Tail(s)) ELSE s

RECURSIVE trimEnd(_)
trimEnd(s) ==
    IF s # <<>> /\ s[Len(s)] \in Whitespace THEN trimEnd(SubSeq(s, 1, Len(s) - 1)) ELSE s

\* String.prototype.trim
trim(s) == trimEnd(trimStart(s))

\* (process.env.SCENARIO || "1").trim()
scenario == trim(IF pEnv = Undefined \/ pEnv = <<>> THEN <<"1">> ELSE pEnv)

\* the own keys of scenarioMap
ScenarioKeys ==
    {<<"1">>, <<"2">>, <<"3">>, <<"4">>, <<"5">>, <<"6">>, <<"7">>, <<"8">>, <<"9">>,
     <<"1", "0">>, <<"1", "1">>, <<"1", "0", "4">>, <<"1", "0", "5">>, <<"1", "0", "6">>,
     <<"1", "0", "7">>, <<"1", "0", "8">>, <<"1", "0", "9">>, <<"1", "1", "0">>,
     <<"1", "1", "1">>}

\* names scenarioMap inherits from Object.prototype: their value is a
\* function, not a path
InheritedKeys == {<<"c", "o", "n", "s", "t", "r", "u", "c", "t", "o", "r">>}

\* scenarioMap[scenario]: a path, an inherited value, or undefined
scenarioMapLookup(s) ==
    IF s \in ScenarioKeys THEN "path"
    ELSE IF s \in InheritedKeys THEN "inherited"
    ELSE "undefined"

EnvValues ==
    {Undefined, <<>>, <<" ">>, <<"8">>, <<" ", "8", "\n">>, <<"1", "0", "8">>, <<"4">>,
     <<"3">>, <<"0">>, <<"9", "9">>, <<"8", " ", "8">>,
     <<"c", "o", "n", "s", "t", "r", "u", "c", "t", "o", "r">>}

\* what require(modPath) gives: a module that exports run, one that does
\* not, or an exception (the file is not there or fails to load)
ModuleKinds == {"run", "norun", "throws"}

\* the errors a scenario's run rejects with: the three fatal errors of
\* runPerf, a failed assertion of scenario 3, and any other error
RunErrors ==
    {[name |-> "Error", message |-> "No successful logins; aborting chat phase."],
     [name |-> "Error", message |-> "CreateRoom failed"],
     [name |-> "Error",
      message |-> "No users entered the room; cannot proceed to chat phase."],
     [name |-> "Error", message |-> "ASSERTION FAILED"],
     [name |-> "TypeError", message |-> "other"]}

\* the exception of the try block before run is called
loadError ==
    IF scenarioMapLookup(scenario) = "inherited"
    THEN [name |-> "TypeError", message |-> "ERR_INVALID_ARG_TYPE"]
    ELSE [name |-> "Error", message |-> "MODULE_NOT_FOUND"]

written(text, err) == [text |-> text, scenario |-> scenario, err |-> err]

\* console.log of line 47 and startSpinner, which writes its text once
started == <<written("Tester: starting Scenario", NoError),
             written("Scenario running", NoError)>>

\* spinner.fail writes to the output stream on a terminal and to the error
\* stream otherwise
failOut(text) == IF pTTY THEN <<written(text, NoError)>> ELSE <<>>

failErr(text) == IF pTTY THEN <<>> ELSE <<written(text, NoError)>>

InitProc ==
    /\ HistIdle
    /\ ShardIdle
    /\ RetryIdle
    /\ RunIdle
    /\ P95Idle
    /\ CompareIdle
    /\ RoomsIdle
    /\ ChatIdle
    /\ pEnv \in EnvValues
    /\ pTTY \in BOOLEAN
    /\ pModule \in ModuleKinds
    /\ pPc = "load"
    /\ pStatus = <<>>
    /\ pErr = <<>>
    /\ pOut = <<>>
    /\ pRun = [st |-> "none", err |-> NoError]

procOthers == <<histVars, shardVars, retryVars, runVars, p95Vars, cmpVars, roomVars, chatVars>>

\* lines 40-45
ProcUnknown ==
    /\ pPc = "load"
    /\ scenarioMapLookup(scenario) = "undefined"
    /\ pErr' = Append(pErr, written("Unknown SCENARIO", NoError))
    /\ pStatus' = <<1>>
    /\ pPc' = "exited"
    /\ UNCHANGED <<pEnv, pTTY, pModule, pOut, pRun, procOthers>>

\* lines 53-54 throw, lines 67-70 catch
ProcLoadThrows ==
    /\ pPc = "load"
    /\ \/ scenarioMapLookup(scenario) = "inherited"
       \/ scenarioMapLookup(scenario) = "path" /\ pModule = "throws"
    /\ pOut' = pOut \o started \o failOut("Scenario failed")
    /\ pErr' = pErr \o failErr("Scenario failed")
                    \o <<written("Tester failed:", loadError)>>
    /\ pStatus' = <<1>>
    /\ pPc' = "exited"
    /\ UNCHANGED <<pEnv, pTTY, pModule, pRun, procOthers>>

\* lines 56-60
ProcInvalidModule ==
    /\ pPc = "load"
    /\ scenarioMapLookup(scenario) = "path"
    /\ pModule = "norun"
    /\ pOut' = pOut \o started \o failOut("Scenario invalid module")
    /\ pErr' = pErr \o failErr("Scenario invalid module")
                    \o <<written("module must export: run({ env })", NoError)>>
    /\ pStatus' = <<1>>
    /\ pPc' = "exited"
    /\ UNCHANGED <<pEnv, pTTY, pModule, pRun, procOthers>>

\* line 62, up to the await
ProcCallRun ==
    /\ pPc = "load"
    /\ scenarioMapLookup(scenario) = "path"
    /\ pModule = "run"
    /\ pOut' = pOut \o started
    /\ pRun' = [st |-> "pending", err |-> NoError]
    /\ pPc' = "await"
    /\ UNCHANGED <<pEnv, pTTY, pModule, pStatus, pErr, procOthers>>

\* lines 64-66
ProcRunResolved ==
    /\ pPc = "await"
    /\ pRun' = [st |-> "resolved", err |-> NoError]
    /\ pOut' = pOut \o <<written("Scenario complete", NoError),
                         written("Tester: Scenario complete.", NoError)>>
    /\ pStatus' = <<0>>
    /\ pPc' = "exited"
    /\ UNCHANGED <<pEnv, pTTY, pModule, pErr, procOthers>>

\* a plausible slip: the catch block reports the error and exits with 0
ProcRunRejected_exitZero(err) ==
    /\ pPc = "await"
    /\ pRun' = [st |-> "rejected", err |-> err]
    /\ pOut' = pOut \o failOut("Scenario failed")
    /\ pErr' = pErr \o failErr("Scenario failed") \o <<written("Tester failed:", err)>>
    /\ pStatus' = <<0>>
    /\ pPc' = "exited"
    /\ UNCHANGED <<pEnv, pTTY, pModule, procOthers>>

\* the await of line 62 throws err, lines 67-70 catch it
ProcRunRejected(err) ==
    /\ pPc = "await"
    /\ pRun' = [st |-> "rejected", err |-> err]
    /\ pOut' = pOut \o failOut("Scenario failed")
    /\ pErr' = pErr \o failErr("Scenario failed") \o <<written("Tester failed:", err)>>
    /\ pStatus' = <<1>>
    /\ pPc' = "exited"
    /\ UNCHANGED <<pEnv, pTTY, pModule, procOthers>>

NextProc ==
    \/ ProcUnknown
    \/ ProcLoadThrows
    \/ ProcInvalidModule
    \/ ProcCallRun
    \/ ProcRunResolved
    \/ \E err \in RunErrors : ProcRunRejected(err)

SpecProc == InitProc /\ [][NextProc]_vars

\* the error stream holds the message text, with the error err if any
reported(text, err) ==
    \E i \in DOMAIN pErr : pErr[i].text = text /\ pErr[i].err = err

\* the SCENARIO value selects no scenario of the map
unknownScenario == scenario \notin ScenarioKeys

\* C27: the process exits with 0 or 1, and with 0 only when the scenario's run
\* was called and resolved; an unknown SCENARIO value, a module without a run
\* function and every error the run rejects with (the fatal errors of
\* runPerf among them) end in status 1 with the error on the error stream
C27_ExitStatus ==
    pPc = "exited" =>
        /\ pStatus \in {<<0>>, <<1>>}
        /\ pStatus = <<0>> <=> pRun.st = "resolved"
        /\ pStatus = <<0>> => ~unknownScenario /\ pModule = "run" /\ pErr = <<>>
        /\ unknownScenario =>
              /\ pStatus = <<1>>
              /\ pRun.st = "none"
              /\ \/ reported("Unknown SCENARIO", NoError)
                 \/ reported("Tester failed:", loadError)
        /\ (~unknownScenario /\ pModule = "norun") =>
              /\ pStatus = <<1>>
              /\ reported("module must export: run({ env })", NoError)
        /\ pRun.st = "rejected" =>
              /\ pStatus = <<1>>
              /\ pRun.err \in RunErrors
              /\ reported("Tester failed:", pRun.err)

C27_Witness ==
    /\ pPc = "exited"
    /\ pEnv = <<" ", "8", "\n">>
    /\ pRun.st = "rejected"
    /\ pRun.err.message = "No users entered the room; cannot proceed to chat phase."
    /\ pStatus = <<1>>

----------------------------------------------------------------------------
(* observe and its bucket, under SpecHist *)

\* the latency of the observe call of a step, read off the sum of latencies
observedMs == tHist'.sumMs - tHist.sumMs

\* the bucket, counted from 1, a latency belongs to: one past the boundaries
\* that are smaller than it (the boundaries ascend), which is the overflow
\* bucket when every boundary is smaller
bucketFor(ms) == Cardinality({k \in 1..Len(BUCKETS_MS) : BUCKETS_MS[k] < ms}) + 1

\* C28: a call of observe increments exactly one bucket by one and leaves
\* the others alone: the first bucket whose boundary is >= the latency (so a
\* latency equal to a boundary stays in that boundary's bucket), or the
\* overflow bucket, the last one, when the latency exceeds every boundary
C28_OneBucketPerObserve ==
    [][tHist' # tHist =>
          /\ Len(tHist'.buckets) = Len(BUCKETS_MS) + 1
          /\ \A k \in DOMAIN tHist.buckets :
                tHist'.buckets[k] =
                    tHist.buckets[k] + (IF k = bucketFor(observedMs) THEN 1 ELSE 0)
          /\ bucketFor(observedMs) <= Len(BUCKETS_MS) =>
                /\ observedMs <= BUCKETS_MS[bucketFor(observedMs)]
                /\ \A j \in 1..(bucketFor(observedMs) - 1) : BUCKETS_MS[j] < observedMs
          /\ bucketFor(observedMs) = Len(BUCKETS_MS) + 1 =>
                \A j \in 1..Len(BUCKETS_MS) : BUCKETS_MS[j] < observedMs]_vars

\* a latency equal to the last boundary and one above it have been observed:
\* one sample in the last bounded bucket, one in the overflow bucket
C28_Witness ==
    /\ tObs.n = 2
    /\ tHist.sumMs = 10001
    /\ tHist.minMs = 5000
    /\ tHist.buckets[Len(BUCKETS_MS)] = 1
    /\ tHist.buckets[Len(BUCKETS_MS) + 1] = 1

----------------------------------------------------------------------------
(* Specification SpecRooms: the room handlers of the target (the monolith's
   in-memory rooms, or chatroom-service over its tables) serving the
   people test of scenario 3 and a second client. DeleteRoom is not part
   of it: no client deletes a room while the test runs. *)

RoomNames == {"Area 51", "Lobby"}

TestRoom == "Area 51"

TestPerson == "demo"

\* the second client acts for another person, or sends no person_name
OtherPersons == {"bob", ""}

MaxOtherCalls == 2

Clients == {"tester", "other"}

NoCall == [method |-> "none", room |-> "", person |-> "", stage |-> "none"]

answer(code, people) == [code |-> code, people |-> people]

\* ensureRoomExists: rooms.set(roomName, new Set()) unless the room is there
ensureRoomExists(rms, room) ==
    IF rms[room].exists THEN rms
    ELSE [rms EXCEPT ![room] = [exists |-> TRUE, people |-> {}]]

\* a plausible slip: LeaveRoom answers OK without removing the person
peopleDelete_noop(people, person) == people

\* people.delete(person_name)
peopleDelete(people, person) == people \ {person}

\* the monolith's handler of call c after its credential was validated:
\* the rooms it leaves and its answer
monoHandle(c, rms) ==
    IF c.method = "CreateRoom"
    THEN IF rms[c.room].exists
         THEN [rooms |-> rms, ans |-> answer("ALREADY_EXISTS", {})]
         ELSE [rooms |-> ensureRoomExists(rms, c.room), ans |-> answer("OK", {})]
    ELSE IF c.method \in {"EnterRoom", "LeaveRoom"} /\ c.person = ""
    THEN [rooms |-> rms, ans |-> answer("INVALID_ARGUMENT", {})]
    ELSE LET r1 == ensureRoomExists(rms, c.room)
             people == r1[c.room].people
         IN  IF c.method = "EnterRoom"
             THEN IF c.person \in people
                  THEN [rooms |-> r1, ans |-> answer("ALREADY_EXISTS", {})]
                  ELSE [rooms |-> [r1 EXCEPT ![c.room].people = people \cup {c.person}],
                        ans |-> answer("OK", {})]
             ELSE IF c.method = "LeaveRoom"
             THEN [rooms |-> [r1 EXCEPT ![c.room].people = peopleDelete(people, c.person)],
                   ans |-> answer("OK", {})]
             ELSE [rooms |-> r1, ans |-> answer("OK", people)]

\* chatroom-service: the INSERT, DELETE or SELECT of call c, run on the
\* tables; a duplicate key is answered ALREADY_EXISTS
microQuery(c, rms) ==
    LET people == rms[c.room].people
    IN  IF c.method = "CreateRoom"
        THEN IF rms[c.room].exists
             THEN [rooms |-> rms, ans |-> answer("ALREADY_EXISTS", {})]
             ELSE [rooms |-> ensureRoomExists(rms, c.room), ans |-> answer("OK", {})]
        ELSE IF c.method = "EnterRoom"
        THEN IF c.person \in people
             THEN [rooms |-> rms, ans |-> answer("ALREADY_EXISTS", {})]
             ELSE [rooms |-> [rms EXCEPT ![c.room].people = people \cup {c.person}],
                   ans |-> answer("OK", {})]
        ELSE IF c.method = "LeaveRoom"
        THEN [rooms |-> [rms EXCEPT ![c.room].people = people \ {c.person}],
              ans |-> answer("OK", {})]
        ELSE [rooms |-> rms, ans |-> answer("OK", people)]

\* the test of scenario 3 after the answer ans to the RPC of its step: an
\* error other than ALREADY_EXISTS on create and enter, and a failed
\* assertion, end it
testAfter(t, ans) ==
    IF t.pc = "create"
    THEN [t EXCEPT !.pc = IF ans.code \in {"OK", "ALREADY_EXISTS"} THEN "enter" ELSE "failed"]
    ELSE IF t.pc = "enter"
    THEN [t EXCEPT !.pc = IF ans.code \in {"OK", "ALREADY_EXISTS"} THEN "people1" ELSE "failed",
                   !.enterCode = ans.code]
    ELSE IF t.pc = "people1"
    THEN IF ans.code # "OK" THEN [t EXCEPT !.pc = "failed"]
         ELSE [t EXCEPT !.pc = IF TestPerson \in ans.people THEN "leave" ELSE "failed",
                        !.got1 = TRUE, !.people1 = ans.people]
    ELSE IF t.pc = "leave"
    THEN [t EXCEPT !.pc = IF ans.code = "OK" THEN "people2" ELSE "failed"]
    ELSE IF ans.code # "OK" THEN [t EXCEPT !.pc = "failed"]
         ELSE [t EXCEPT !.pc = IF TestPerson \notin ans.people THEN "done" ELSE "failed",
                        !.got2 = TRUE, !.people2 = ans.people]

\* the RPC of each step of the test
testMethod(step) ==
    IF step = "create" THEN "CreateRoom"
    ELSE IF step = "enter" THEN "EnterRoom"
    ELSE IF step = "leave" THEN "LeaveRoom"
    ELSE "GetPeople"

\* where a handler first waits: the monolith for the credential check,
\* chatroom-service for getRoomIdByName, or for its INSERT in CreateRoom
firstStage(method) ==
    IF srvTopo = "mono" THEN "validate"
    ELSE IF method = "CreateRoom" THEN "query"
    ELSE "lookup"

InitRooms ==
    /\ HistIdle
    /\ ShardIdle
    /\ RetryIdle
    /\ RunIdle
    /\ P95Idle
    /\ CompareIdle
    /\ ProcIdle
    /\ ChatIdle
    /\ srvTopo \in {"mono", "micro"}
    /\ srvRooms \in [RoomNames -> {[exists |-> FALSE, people |-> {}]}
                        \cup {[exists |-> TRUE, people |-> ps] : ps \in SUBSET {TestPerson, "bob"}}]
    /\ srvCalls = [c \in Clients |-> NoCall]
    /\ tScript = [pc |-> "create", enterCode |-> "", got1 |-> FALSE, people1 |-> {},
                  got2 |-> FALSE, people2 |-> {}]
    /\ oLeft = MaxOtherCalls

roomOthers == <<histVars, shardVars, retryVars, runVars, p95Vars, cmpVars, procVars, chatVars>>

\* the answer reaches the client that called
answered(c, ans) ==
    /\ srvCalls' = [srvCalls EXCEPT ![c] = NoCall]
    /\ tScript' = IF c = "tester" THEN testAfter(tScript, ans) ELSE tScript

TesterIssue ==
    /\ tScript.pc \notin {"done", "failed"}
    /\ srvCalls["tester"] = NoCall
    /\ srvCalls' = [srvCalls EXCEPT !["tester"] =
                       [method |-> testMethod(tScript.pc), room |-> TestRoom,
                        person |-> TestPerson, stage |-> firstStage(testMethod(tScript.pc))]]
    /\ UNCHANGED <<srvTopo, srvRooms, tScript, oLeft, roomOthers>>

OtherIssue(method, room, person) ==
    /\ oLeft > 0
    /\ srvCalls["other"] = NoCall
    /\ srvCalls' = [srvCalls EXCEPT !["other"] =
                       [method |-> method, room |-> room, person |-> person,
                        stage |-> firstStage(method)]]
    /\ oLeft' = oLeft - 1
    /\ UNCHANGED <<srvTopo, srvRooms, tScript, roomOthers>>

\* monolith: validateCredentialOrThrowAsync returns or throws, and the rest
\* of the handler runs
MonoResume(c, valid) ==
    /\ srvCalls[c].stage = "validate"
    /\ IF valid
       THEN /\ srvRooms' = monoHandle(srvCalls[c], srvRooms).rooms
            /\ answered(c, monoHandle(srvCalls[c], srvRooms).ans)
       ELSE /\ answered(c, answer("UNAUTHENTICATED", {}))
            /\ UNCHANGED srvRooms
    /\ UNCHANGED <<srvTopo, oLeft, roomOthers>>

\* chatroom-service: the handler up to the answer of getRoomIdByName (the
\* test of the arguments, which precedes the query, is taken with it)
MicroLookup(c, fails) ==
    /\ srvCalls[c].stage = "lookup"
    /\ IF srvCalls[c].method \in {"EnterRoom", "LeaveRoom"} /\ srvCalls[c].person = ""
       THEN answered(c, answer("INVALID_ARGUMENT", {}))
       ELSE IF fails THEN answered(c, answer("INTERNAL", {}))
       ELSE IF ~srvRooms[srvCalls[c].room].exists
       THEN answered(c, answer("NOT_FOUND", {}))
       ELSE /\ srvCalls' = [srvCalls EXCEPT ![c].stage = "query"]
            /\ UNCHANGED tScript
    /\ UNCHANGED <<srvTopo, srvRooms, oLeft, roomOthers>>

\* chatroom-service: the handler's INSERT, DELETE or SELECT and its callback
MicroQuery(c, fails) ==
    /\ srvCalls[c].stage = "query"
    /\ IF fails
       THEN /\ answered(c, answer("INTERNAL", {}))
            /\ UNCHANGED srvRooms
       ELSE /\ srvRooms' = microQuery(srvCalls[c], srvRooms).rooms
            /\ answered(c, microQuery(srvCalls[c], srvRooms).ans)
    /\ UNCHANGED <<srvTopo, oLeft, roomOthers>>

NextRooms ==
    \/ TesterIssue
    \/ \E method \in {"CreateRoom", "EnterRoom", "LeaveRoom", "GetPeople"},
          room \in RoomNames, person \in OtherPersons : OtherIssue(method, room, person)
    \/ \E c \in Clients, valid \in BOOLEAN : MonoResume(c, valid)
    \/ \E c \in Clients, fails \in BOOLEAN : MicroLookup(c, fails)
    \/ \E c \in Clients, fails \in BOOLEAN : MicroQuery(c, fails)

SpecRooms == InitRooms /\ [][NextRooms]_vars

\* C29: the GetPeople answered after an EnterRoom that succeeded or was
\* answered ALREADY_EXISTS contains the person, and the GetPeople answered
\* after the following LeaveRoom does not, while another client enters and
\* leaves the same room
C29_MembershipRoundTrip ==
    /\ tScript.got1 =>
          /\ tScript.enterCode \in {"OK", "ALREADY_EXISTS"}
          /\ TestPerson \in tScript.people1
    /\ tScript.got2 => TestPerson \notin tScript.people2

C29_Witness ==
    /\ tScript.pc = "done"
    /\ srvTopo = "micro"
    /\ tScript.enterCode = "ALREADY_EXISTS"
    /\ tScript.people1 = {"demo", "bob"}
    /\ tScript.people2 = {}

----------------------------------------------------------------------------
(* Specification SpecChat: the chat handlers of the target (the monolith, or
   chat-service called directly) serving the messaging test of scenario 3
   and a second client. A room that is in no Map yet is a room with no
   subscriber and no message, so ensureMessagingRoom changes nothing here.
   The second client cancels its stream at any moment after the call, also
   while the monolith still validates the credential: the "cancelled" event
   is then emitted on a call that has no listener yet, and is lost. *)

Text1 == "hello from Area 51"

Text2 == "second message"

\* the limit of the test's GetHistory
HistoryLimit == 5

MaxOtherChatCalls == 2

NoStream ==
    [room |-> "", stage |-> "none", cancelled |-> FALSE, listening |-> FALSE,
     received |-> <<>>]

NoChatCall == [method |-> "none", room |-> "", person |-> "", text |-> "", stage |-> "none"]

chatAnswer(code, messages) == [code |-> code, messages |-> messages]

\* streamCall.write(msg) for every stream of the room's set: the message
\* reaches the clients whose stream is not cancelled
deliver(streams, subs, text) ==
    [c \in Clients |->
        IF c \in subs /\ ~streams[c].cancelled
        THEN [streams[c] EXCEPT !.received = Append(@, text)]
        ELSE streams[c]]

\* arr.slice(Math.max(0, arr.length - limit)), and the rows of ORDER BY id
\* DESC LIMIT lim, reversed
lastMessages(arr, limit) == SubSeq(arr, Max(0, Len(arr) - limit) + 1, Len(arr))

\* a stream as Subscribe leaves it when the call arrives: the monolith
\* waits for the credential check, chat-service registers the call at once
arrivedStream(room) ==
    IF chTopo = "mono"
    THEN [NoStream EXCEPT !.room = room, !.stage = "validating"]
    ELSE [NoStream EXCEPT !.room = room, !.stage = "serving", !.listening = TRUE]

subsAfterArrival(c, room) ==
    IF chTopo = "mono" THEN chSubs ELSE [chSubs EXCEPT ![room] = @ \cup {c}]

chatFirstStage(method) ==
    IF chTopo = "mono" THEN "validate"
    ELSE IF method = "SendMessage" THEN "insert"
    ELSE "select"

\* the messaging test after the answer to its unary RPC: an error, or a
\* history of fewer than 2 messages, ends it
testChatAfter(t, ans) ==
    IF t.pc = "send1"
    THEN [t EXCEPT !.pc = IF ans.code = "OK" THEN "send2" ELSE "failed"]
    ELSE IF t.pc = "send2"
    THEN [t EXCEPT !.pc = IF ans.code = "OK" THEN "wait" ELSE "failed"]
    ELSE IF ans.code # "OK" THEN [t EXCEPT !.pc = "failed"]
         ELSE [t EXCEPT !.pc = IF Len(ans.messages) >= 2 THEN "cancel" ELSE "failed",
                        !.gotHist = TRUE, !.hist = ans.messages]

InitChat ==
    /\ HistIdle
    /\ ShardIdle
    /\ RetryIdle
    /\ RunIdle
    /\ P95Idle
    /\ CompareIdle
    /\ ProcIdle
    /\ RoomsIdle
    /\ chTopo \in {"mono", "micro"}
    /\ chSubs = [r \in RoomNames |-> {}]
    /\ \E old \in {<<>>, <<"old message">>} :
          chHistory = [r \in RoomNames |-> IF r = TestRoom THEN old ELSE <<>>]
    /\ chSeq = Len(chHistory[TestRoom])
    /\ chStreams = [c \in Clients |-> NoStream]
    /\ chCalls = [c \in Clients |-> NoChatCall]
    /\ tChat = [pc |-> "subscribe", checked |-> FALSE, seen |-> <<>>,
                gotHist |-> FALSE, hist |-> <<>>]
    /\ oChat = MaxOtherChatCalls

chatOthers == <<histVars, shardVars, retryVars, runVars, p95Vars, cmpVars, procVars, roomVars>>

chatAnswered(c, ans) ==
    /\ chCalls' = [chCalls EXCEPT ![c] = NoChatCall]
    /\ tChat' = IF c = "tester" THEN testChatAfter(tChat, ans) ELSE tChat

\* step 4 of the test: the Subscribe call is made and the test goes on
TesterSubscribe ==
    /\ tChat.pc = "subscribe"
    /\ chStreams' = [chStreams EXCEPT !["tester"] = arrivedStream(TestRoom)]
    /\ chSubs' = subsAfterArrival("tester", TestRoom)
    /\ tChat' = [tChat EXCEPT !.pc = "send1"]
    /\ UNCHANGED <<chTopo, chHistory, chSeq, chCalls, oChat, chatOthers>>

\* steps 5 and 6: the two SendMessage calls, then GetHistory
TesterChatIssue ==
    /\ tChat.pc \in {"send1", "send2", "history"}
    /\ chCalls["tester"] = NoChatCall
    /\ LET method == IF tChat.pc = "history" THEN "GetHistory" ELSE "SendMessage"
       IN  chCalls' = [chCalls EXCEPT !["tester"] =
               [method |-> method, room |-> TestRoom, person |-> TestPerson,
                text |-> IF tChat.pc = "send1" THEN Text1
                         ELSE IF tChat.pc = "send2" THEN Text2 ELSE "",
                stage |-> chatFirstStage(method)]]
    /\ UNCHANGED <<chTopo, chSubs, chHistory, chSeq, chStreams, tChat, oChat, chatOthers>>

\* the assertion after the wait for stream delivery
TesterCheck ==
    /\ tChat.pc = "wait"
    /\ tChat' = [tChat EXCEPT
                    !.pc = IF Len(chStreams["tester"].received) >= 2 THEN "history"
                           ELSE "failed",
                    !.checked = TRUE, !.seen = chStreams["tester"].received]
    /\ UNCHANGED <<chTopo, chSubs, chHistory, chSeq, chStreams, chCalls, oChat, chatOthers>>

\* stream.cancel() of a client, and the cleanup its event runs on the server
\* when the listeners are attached; a handler waiting for the credential
\* check goes on when the check returns
cancelStream(c) ==
    /\ chStreams' = [chStreams EXCEPT
                        ![c].cancelled = TRUE,
                        ![c].stage = IF @ = "validating" THEN @ ELSE "ended"]
    /\ chSubs' = IF chStreams[c].listening
                 THEN [chSubs EXCEPT ![chStreams[c].room] = @ \ {c}]
                 ELSE chSubs

TesterCancel ==
    /\ tChat.pc = "cancel"
    /\ cancelStream("tester")
    /\ tChat' = [tChat EXCEPT !.pc = "done"]
    /\ UNCHANGED <<chTopo, chHistory, chSeq, chCalls, oChat, chatOthers>>

OtherSubscribe(room) ==
    /\ oChat > 0
    /\ chStreams["other"].stage = "none"
    /\ chStreams' = [chStreams EXCEPT !["other"] = arrivedStream(room)]
    /\ chSubs' = subsAfterArrival("other", room)
    /\ oChat' = oChat - 1
    /\ UNCHANGED <<chTopo, chHistory, chSeq, chCalls, tChat, chatOthers>>

OtherCancel ==
    /\ chStreams["other"].stage \in {"validating", "serving"}
    /\ ~chStreams["other"].cancelled
    /\ cancelStream("other")
    /\ UNCHANGED <<chTopo, chHistory, chSeq, chCalls, tChat, oChat, chatOthers>>

OtherSend(room) ==
    /\ oChat > 0
    /\ chCalls["other"] = NoChatCall
    /\ chCalls' = [chCalls EXCEPT !["other"] =
           [method |-> "SendMessage", room |-> room, person |-> "bob", text |-> "hi",
            stage |-> chatFirstStage("SendMessage")]]
    /\ oChat' = oChat - 1
    /\ UNCHANGED <<chTopo, chSubs, chHistory, chSeq, chStreams, tChat, chatOthers>>

\* monolith Subscribe after validateCredentialOrThrowAsync: the call joins
\* the room's set and gets its cleanup listeners, or, the credential being
\* refused, is ended with the error (the test's credential is a valid one)
MonoSubscribeResume(c, valid) ==
    /\ chStreams[c].stage = "validating"
    /\ c = "tester" => valid
    /\ IF valid
       THEN /\ chStreams' = [chStreams EXCEPT ![c].stage = "serving", ![c].listening = TRUE]
            /\ chSubs' = [chSubs EXCEPT ![chStreams[c].room] = @ \cup {c}]
       ELSE /\ chStreams' = [chStreams EXCEPT ![c].stage = "ended"]
            /\ UNCHANGED chSubs
    /\ UNCHANGED <<chTopo, chHistory, chSeq, chCalls, tChat, oChat, chatOthers>>

\* monolith SendMessage and GetHistory after validateCredentialOrThrowAsync
MonoChatResume(c, valid) ==
    /\ chCalls[c].stage = "validate"
    /\ c = "tester" => valid
    /\ IF ~valid
       THEN /\ chatAnswered(c, chatAnswer("UNAUTHENTICATED", <<>>))
            /\ UNCHANGED <<chHistory, chSeq, chStreams>>
       ELSE IF chCalls[c].method = "SendMessage"
       THEN /\ chSeq' = chSeq + 1
            /\ chHistory' = [chHistory EXCEPT ![chCalls[c].room] = Append(@, chCalls[c].text)]
            /\ chStreams' = deliver(chStreams, chSubs[chCalls[c].room], chCalls[c].text)
            /\ chatAnswered(c, chatAnswer("OK", <<>>))
       ELSE /\ chatAnswered(c, chatAnswer("OK",
                   lastMessages(chHistory[chCalls[c].room], HistoryLimit)))
            /\ UNCHANGED <<chHistory, chSeq, chStreams>>
    /\ UNCHANGED <<chTopo, chSubs, oChat, chatOthers>>

\* chat-service SendMessage: the INSERT into messages runs, or fails
MicroInsert(c, fails) ==
    /\ chCalls[c].stage = "insert"
    /\ IF fails
       THEN /\ chatAnswered(c, chatAnswer("UNKNOWN", <<>>))
            /\ UNCHANGED <<chHistory, chSeq>>
       ELSE /\ chSeq' = chSeq + 1
            /\ chHistory' = [chHistory EXCEPT ![chCalls[c].room] = Append(@, chCalls[c].text)]
            /\ chCalls' = [chCalls EXCEPT ![c].stage = "broadcast"]
            /\ UNCHANGED tChat
    /\ UNCHANGED <<chTopo, chSubs, chStreams, oChat, chatOthers>>

\* chat-service SendMessage after the INSERT: broadcast and callback
MicroBroadcast(c) ==
    /\ chCalls[c].stage = "broadcast"
    /\ chStreams' = deliver(chStreams, chSubs[chCalls[c].room], chCalls[c].text)
    /\ chatAnswered(c, chatAnswer("OK", <<>>))
    /\ UNCHANGED <<chTopo, chSubs, chHistory, chSeq, oChat, chatOthers>>

\* chat-service GetHistory: the SELECT runs, or fails
MicroSelect(c, fails) ==
    /\ chCalls[c].stage = "select"
    /\ IF fails
       THEN chatAnswered(c, chatAnswer("UNKNOWN", <<>>))
       ELSE chatAnswered(c, chatAnswer("OK",
                lastMessages(chHistory[chCalls[c].room], Max(1, Min(200, HistoryLimit)))))
    /\ UNCHANGED <<chTopo, chSubs, chHistory, chSeq, chStreams, oChat, chatOthers>>

NextChat ==
    \/ TesterSubscribe
    \/ TesterChatIssue
    \/ TesterCheck
    \/ TesterCancel
    \/ \E room \in RoomNames : OtherSubscribe(room)
    \/ OtherCancel
    \/ \E room \in RoomNames : OtherSend(room)
    \/ \E c \in Clients, valid \in BOOLEAN : MonoSubscribeResume(c, valid)
    \/ \E c \in Clients, valid \in BOOLEAN : MonoChatResume(c, valid)
    \/ \E c \in Clients, fails \in BOOLEAN : MicroInsert(c, fails)
    \/ \E c \in Clients : MicroBroadcast(c)
    \/ \E c \in Clients, fails \in BOOLEAN : MicroSelect(c, fails)

SpecChat == InitChat /\ [][NextChat]_vars

\* the elements of a sequence
Range(seq) == {seq[i] : i \in DOMAIN seq}

\* C30: once the test has waited for the stream after its Subscribe and its
\* two answered SendMessage calls, the stream has delivered both messages,
\* and the GetHistory answered after them contains both
C30_SubscribeThenSendDelivered ==
    /\ tChat.checked => {Text1, Text2} \subseteq Range(tChat.seen)
    /\ tChat.gotHist => {Text1, Text2} \subseteq Range(tChat.hist)

\* the GetHistory answered after the two sends contains both messages
HistoryContainsSent == tChat.gotHist => {Text1, Text2} \subseteq Range(tChat.hist)

\* chat-service, which registers the stream when the call arrives, has
\* delivered both messages by the time the test looks
MicroStreamDelivers ==
    (chTopo = "micro" /\ tChat.checked) => {Text1, Text2} \subseteq Range(tChat.seen)

\* the monolith delivers both messages when the stream was registered
\* before the first SendMessage was handled
MonoStreamDeliversIfRegistered ==
    (chTopo = "mono" /\ tChat.checked /\ Text1 \in Range(tChat.seen)) =>
        Text2 \in Range(tChat.seen)

\* a stream that has terminated: cancelled by its client, or ended by the
\* server with an error
terminated(c) == chStreams[c].cancelled \/ chStreams[c].stage = "ended"

\* the step registers the call of client c (Subscribe reaches its add)
subscribes(c) == ~chStreams[c].listening /\ chStreams'[c].listening

\* the step is the termination of the stream of client c
terminates(c) == ~terminated(c) /\ terminated(c)'

\* a room's subscriber set changes only by the add of a Subscribe and by
\* the removal of a stream that terminates in the same step
SubscribersChangeOnlyOnStreamEvents ==
    \A r \in RoomNames :
        chSubs'[r] # chSubs[r] =>
            \E c \in Clients :
                \/ subscribes(c) /\ chSubs'[r] = chSubs[r] \cup {c}
                \/ terminates(c) /\ chSubs'[r] = chSubs[r] \ {c}

\* no terminated stream is in a room's subscriber set
TerminatedNotSubscribed ==
    \A c \in Clients, r \in RoomNames : terminated(c) => c \notin chSubs[r]

\* C31: a room's subscriber set changes only on subscribe and on stream
\* termination, and a terminated stream is in no room's subscriber set, also
\* when it terminated while Subscribe was validating the credential
C31_SubscribersFollowStreams ==
    []TerminatedNotSubscribed /\ [][SubscribersChangeOnlyOnStreamEvents]_vars

\* the subscriber set changes only on subscribe and on termination
SubscribersChangeOnlyOnEvents == [][SubscribersChangeOnlyOnStreamEvents]_vars

\* chat-service, which attaches the listeners when the call arrives, holds
\* no terminated stream
MicroTerminatedNotSubscribed == chTopo = "micro" => TerminatedNotSubscribed

\* the monolith holds no terminated stream whose termination came after
\* the listeners were attached
MonoTerminatedAfterRegistration ==
    \A c \in Clients, r \in RoomNames :
        (chTopo = "mono" /\ chStreams[c].stage = "ended") => c \notin chSubs[r]

----------------------------------------------------------------------------
(* The backoff of unaryWithRetry *)

\* the number of attempts answered so far, and the answer of the last one
attemptsMade == Len(rTrace)

lastAnswer == rTrace[Len(rTrace)].err

\* the last answered attempt is a retryable, non-accepted failure and the
\* budget allows another attempt
retryableFailure ==
    /\ attemptsMade >= 1
    /\ attemptsMade < rPolicy.maxAttempts
    /\ IsTransient(lastAnswer)
    /\ ~IsAccepted(lastAnswer)

\* d = min(maxDelayMs, baseDelayMs * 2^(k-1))
cappedDelay(k) ==
    IF rPolicy.baseDelayMs * (2 ^ (k - 1)) < rPolicy.maxDelayMs
    THEN rPolicy.baseDelayMs * (2 ^ (k - 1))
    ELSE rPolicy.maxDelayMs

(* C32: after a retryable failure of attempt k < maxAttempts the call      *)
(* sleeps a delay in [d, 1.2 * d], d = min(maxDelayMs, baseDelayMs *       *)
(* 2^(k-1)), before attempt k + 1; it does not sleep after a success, an   *)
(* accepted error, a non-retryable error or the last attempt.              *)
C32_BackoffDelay ==
    /\ rCall.st = "sleeping" =>
          /\ retryableFailure
          /\ rCall.attempt = attemptsMade
          /\ cappedDelay(attemptsMade) <= rCall.sleepMs
          /\ 10 * rCall.sleepMs <= 12 * cappedDelay(attemptsMade)
    /\ (retryableFailure /\ rCall.attempt = attemptsMade) => rCall.st = "sleeping"
    /\ (rCall.st = "inflight" /\ rCall.attempt > 1) =>
          retryableFailure /\ rCall.attempt = attemptsMade + 1
    /\ rCall.st # "sleeping" => rCall.sleepMs = 0

\* the second sleep of a call, at the ceiling and with the largest jitter
C32_Witness ==
    /\ rCall.st = "sleeping"
    /\ attemptsMade = 2
    /\ rPolicy.baseDelayMs = 300
    /\ rCall.sleepMs = 599

----------------------------------------------------------------------------
(* Termination of runPerf *)

\* runPerf has returned or thrown
runEnded == pc \in {"done", "thrown"}

\* C38: when every RPC eventually answers, runPerf returns or throws for
\* every integer BATCH_SIZE, DURATION_SEC and RPC_MAX_ATTEMPTS that
\* parseIntEnv accepts, 0 and negative values included
C38_RunTerminates == <>runEnded

\* a run whose BATCH_SIZE is positive returns or throws
PositiveBatchTerminates == (cfg.BATCH_SIZE > 0) => <>runEnded

\* so does a run whose shard holds no user
EmptyShardTerminates == (shard.count = 0) => <>runEnded

----------------------------------------------------------------------------
(* RPCs in flight *)

\* RPCs issued by the harness and not yet answered
inFlightTotal ==
    inFlight("Login") + inFlight("CreateRoom") + inFlight("EnterRoom")
        + inFlight("SendMessage")

\* C33: at every moment of a run at most BATCH_SIZE RPCs issued by the
\* harness are in flight, in every phase, SEND_MESSAGES included
C33_InFlightAtMostBatch == inFlightTotal <= cfg.BATCH_SIZE

\* C33, amended: RPCs of one phase only are in flight; LOGIN and ENTER_ROOM
\* have at most BATCH_SIZE of them (none when BATCH_SIZE is not positive),
\* CREATE_ROOM has at most one, and SEND_MESSAGES at most one per entered
\* user, whatever BATCH_SIZE
C33_InFlightPerPhase ==
    /\ \A m \in Methods : inFlight(m) > 0 => phase = PhaseOfMethod[m]
    /\ inFlight("Login") <= Max(0, cfg.BATCH_SIZE)
    /\ inFlight("EnterRoom") <= Max(0, cfg.BATCH_SIZE)
    /\ inFlight("CreateRoom") <= 1
    /\ inFlight("SendMessage") <= Len(enteredUsers)
    /\ inFlight("SendMessage") = Cardinality({p \in DOMAIN loops : loops[p].st = "inflight"})

\* two users who logged in and entered one batch after the other have
\* their SendMessage RPCs in flight together
C33_Witness ==
    /\ cfg.BATCH_SIZE = 1
    /\ phase = "SEND_MESSAGES"
    /\ inFlight("SendMessage") = 2

----------------------------------------------------------------------------
(* The sample of EnterRoom failures *)

\* users whose EnterRoom has returned ok = false
enterFailedUsers == {u \in DOMAIN enterOps : enterOps[u].result = "failed"}

\* users whose EnterRoom returns ok = false in the step
failingNow ==
    {u \in DOMAIN enterOps : enterOps[u].result = "pending" /\ enterOps'[u].result = "failed"}

\* the step appends the failing user to a sample that has room, and leaves
\* a full sample and the sample of any other step alone
sampleStep ==
    IF failingNow = {} \/ Len(enterFailSamples) >= 5
    THEN enterFailSamples' = enterFailSamples
    ELSE /\ Len(enterFailSamples') = Len(enterFailSamples) + 1
         /\ SubSeq(enterFailSamples', 1, Len(enterFailSamples)) = enterFailSamples
         /\ failingNow = {enterFailSamples'[Len(enterFailSamples')].user}

\* a failing EnterRoom leaves the run in its batch, nothing thrown
failureStaysInBatch == failingNow # {} => (pc' = "enter_await" /\ thrown' = "")

sampleBounded ==
    /\ Len(enterFailSamples) = Min(5, Cardinality(enterFailedUsers))
    /\ histEnterRoom.err = Cardinality(enterFailedUsers)
    /\ pc = "enter_await" => thrown = ""
    /\ pc \in {"send_await", "done", "thrown"} =>
          \A k \in DOMAIN okCreds : enterOps[okCreds[k]].result \in {"ok", "failed"}

(* C34: the sample of EnterRoom failures never holds more than 5 entries   *)
(* and holds the first failures to complete; a failure is not raised out   *)
(* of its batch; with more than 5 failing users the others are counted in  *)
(* the enter_room histogram's err only.                                    *)
C34_FailureSample == []sampleBounded /\ [][sampleStep /\ failureStaysInBatch]_vars

\* six users failed, five are in the sample
C34_Witness ==
    /\ Cardinality(enterFailedUsers) = 6
    /\ Len(enterFailSamples) = 5
    /\ histEnterRoom.err = 6
    /\ pc = "thrown"

----------------------------------------------------------------------------
(* The number of messages of a send phase *)

\* floor(D * r) and ceil(D * r / 0.75)
minSends == cfg.DURATION_SEC * cfg.MSG_RATE

maxSends == CeilDiv(cfg.DURATION_SEC * cfg.MSG_RATE * 100, 75)

\* the step puts loop p to sleep
sleepsNow(p) ==
    /\ p \in DOMAIN loops'
    /\ loops'[p].st = "sleeping"
    /\ (p \notin DOMAIN loops \/ loops[p].st # "sleeping")

\* a sleep lasts between 0.75 * (1000 / r) and 1000 / r ms
sleepInRange ==
    \A p \in DOMAIN loops' :
        sleepsNow(p) =>
            /\ 4 * cfg.MSG_RATE * (loops'[p].due - now') >= 3 * 1000
            /\ cfg.MSG_RATE * (loops'[p].due - now') <= 1000

sendCountBounded ==
    /\ \A p \in DOMAIN loops :
          /\ loops[p].n <= maxSends
          /\ loops[p].st = "done" => loops[p].n >= minSends
    /\ pc = "done" =>
          /\ out[Len(out)].name = "send_message"
          /\ out[Len(out)].count >= Len(enteredUsers) * minSends
          /\ out[Len(out)].count <= Len(enteredUsers) * maxSends
          /\ out[Len(out)].count > 0
          /\ out[Len(out)].count <= 100

(* C35: with a target that answers at once and a positive rate r, every    *)
(* entered user sleeps between 0.75 * (1000 / r) and 1000 / r ms before    *)
(* each send and so issues at least floor(D * r) and at most               *)
(* ceil(D * r / 0.75) sends in a phase of D seconds; for 3 users, D = 2    *)
(* and r = 5 the send_message count is never 0 and never above 100.        *)
C35_SendCount == []sendCountBounded /\ [][sleepInRange]_vars

\* 3 users, D = 2, r = 5: one user sent 10 messages, another 14
C35_Witness ==
    /\ pc = "done"
    /\ Len(enteredUsers) = 3
    /\ loops[1].n = 10
    /\ loops[2].n = 14
    /\ out[Len(out)].count = loops[1].n + loops[2].n + loops[3].n

----------------------------------------------------------------------------
(* Direct and derived values of a comparison row *)

\* the values the side has when latency and throughput are read from the
\* record's own properties
readsDirect(side, rec) ==
    /\ side.avg_ms = rec.avg_ms
    /\ rec.p95_ms # PsNull => side.p95_ms = rec.p95_ms
    /\ rec.throughput # PsNull => side.throughput_per_sec = psDouble(rec.throughput, 1)

\* the derived values, for a record without the property
derivesMissing(side, rec) ==
    /\ rec.p95_ms = PsNull =>
          side.p95_ms = Get_P95FromHistogram(rec.buckets_ms, rec.buckets)
    /\ (rec.throughput = PsNull /\ rec.count # PsNull /\ psTrue(rec.duration)) =>
          side.throughput_per_sec = psDouble(rec.count, rec.duration)

\* C36: for every metrics record the comparator takes latency and
\* throughput from the record's properties when they are present; p95 comes
\* from the bucket walk only when the record has no p95 of its own, and
\* throughput is count / duration only when the record has no throughput
\* property and count and duration are known
C36_DirectFieldsFirst ==
    \A j \in DOMAIN all :
        LET k == all[j].entry
            n == all[j].metric_name
        IN  /\ recordsOf(monoLog(k), n) # {} =>
                  /\ readsDirect(all[j].mono, lastRecord(monoLog(k), n))
                  /\ derivesMissing(all[j].mono, lastRecord(monoLog(k), n))
            /\ recordsOf(microLog(k), n) # {} =>
                  /\ readsDirect(all[j].micro, lastRecord(microLog(k), n))
                  /\ derivesMissing(all[j].micro, lastRecord(microLog(k), n))

\* the same without the record's own p95: avg_ms is read directly,
\* throughput too when it is not 0, and the missing values are derived
DirectExceptP95 ==
    \A j \in DOMAIN all :
        LET k == all[j].entry
            n == all[j].metric_name
            rec == lastRecord(monoLog(k), n)
        IN  recordsOf(monoLog(k), n) # {} =>
                /\ all[j].mono.avg_ms = rec.avg_ms
                /\ psTrue(rec.throughput) =>
                      all[j].mono.throughput_per_sec = psDouble(rec.throughput, 1)
                /\ all[j].mono.p95_ms = Get_P95FromHistogram(rec.buckets_ms, rec.buckets)
                /\ derivesMissing(all[j].mono, [rec EXCEPT !.p95_ms = PsNull])

\* read directly, the throughput of slowSend would be the 0 it states;
\* -not $throughput is true of 0 and the comparator derives 1 / 10000
ZeroThroughputRead ==
    \A j \in DOMAIN all :
        (monoLog(all[j].entry) = <<slowSend>>) =>
            all[j].mono.throughput_per_sec = psDouble(0, 1)

\* read directly, the p95 of slowSend would be the 7 it states; the
\* comparator walks the histogram and finds 1
OwnP95Read ==
    \A j \in DOMAIN all :
        (monoLog(all[j].entry) = <<slowSend>>) => all[j].mono.p95_ms = 7

----------------------------------------------------------------------------
(* Acceptance on any attempt *)

(* C37: acceptance comes before the retry test and applies on every        *)
(* attempt: an attempt answered with an accepted code, retryable or not,   *)
(* first or later, is the last attempt and the call returns ok = true,     *)
(* recorded once with the latency summed over all its attempts and         *)
(* isError = false.                                                        *)
C37_AcceptedOnAnyAttempt ==
    \A k \in 1..Len(rTrace) :
        IsAccepted(rTrace[k].err) =>
            /\ k = Len(rTrace)
            /\ Returned
            /\ rCall.ret.ok
            /\ rCall.ret.attemptCount = k
            /\ rCall.ret.acceptedError = rTrace[k].err
            /\ rHist.count = rHist0.count + 1
            /\ rHist.err = rHist0.err
            /\ rHist.sumMs = rHist0.sumMs + TraceMs(rTrace)
            /\ rHist.buckets = [rHist0.buckets EXCEPT ![bucketIndex(TraceMs(rTrace))] = @ + 1]

\* the second attempt is answered with a code that is accepted and
\* retryable, after a retryable failure, with attempts left
C37_Witness ==
    /\ Returned
    /\ Len(rTrace) = 2
    /\ IsTransient(rTrace[1].err)
    /\ IsAccepted(rTrace[2].err)
    /\ IsTransient(rTrace[2].err)
    /\ rTrace[1].ms # rTrace[2].ms
    /\ rPolicy.maxAttempts = MaxAttemptsBound
    /\ rCall.ret.ok

----------------------------------------------------------------------------
(* Calls that make no attempt *)

\* the errors the attempts of the call were answered with
attemptErrors == {rTrace[k].err : k \in 1..Len(rTrace)}

\* C40: every call of unaryWithRetry issues at least one RPC attempt and,
\* when it returns ok = false, carries a non-null error of an attempt it
\* made, for every policy, maxAttempts < 1 included
C40_FailureCarriesError ==
    Returned =>
        /\ Len(rTrace) >= 1
        /\ ~rCall.ret.ok => (rCall.ret.err # NullErr /\ rCall.ret.err \in attemptErrors)

\* the same for the policies that allow an attempt
FailureCarriesErrorWithBudget ==
    (Returned /\ rPolicy.maxAttempts >= 1) =>
        /\ Len(rTrace) >= 1
        /\ ~rCall.ret.ok => (rCall.ret.err # NullErr /\ rCall.ret.err \in attemptErrors)

----------------------------------------------------------------------------
(* Telemetry of an aborted run *)

FatalMessages ==
    {"No successful logins; aborting chat phase.", "CreateRoom failed",
     "No users entered the room; cannot proceed to chat phase."}

(* C39: a login_chat run that aborts on a fatal precondition (no           *)
(* successful login, CreateRoom failure, no room entrant) has written no   *)
(* metrics record, whatever its login and enter_room histograms hold: its  *)
(* only telemetry record is run_start.                                     *)
C39_AbortWritesRunStartOnly ==
    pc = "thrown" =>
        /\ cfg.mode = "login_chat"
        /\ thrown \in FatalMessages
        /\ out = <<runStartRecord>>
        /\ thrown = "No successful logins; aborting chat phase." =>
              histLogin.count = shard.count /\ histLogin.err = shard.count
        /\ thrown = "CreateRoom failed" =>
              histLogin.count = shard.count /\ histCreateRoom.err = 1
        /\ thrown = "No users entered the room; cannot proceed to chat phase." =>
              histLogin.count = shard.count /\ histEnterRoom.count = Len(okCreds)

\* two users logged in, the room was created, both failed to enter
C39_Witness ==
    /\ pc = "thrown"
    /\ thrown = "No users entered the room; cannot proceed to chat phase."
    /\ histLogin.count = 2
    /\ histLogin.err = 0
    /\ histCreateRoom.count = 1
    /\ histEnterRoom.count = 2
    /\ histEnterRoom.err = 2
    /\ out = <<runStartRecord>>

====
